---- MODULE Spec2Model ----
(***************************************************************************)
(* Model of the document analysis pipeline of model-server:                *)
(* src/app/services/document_parser.py, process_document_images.           *)
(*                                                                         *)
(* Strings are modelled structurally: a unit text is a sequence of         *)
(* characters, a model response is the record of the call that produced it *)
(* (so two different prompts never give the same response: the most        *)
(* distinguishing deterministic model service), and the report is the list *)
(* final_content_parts, each part a record naming the f-string that built  *)
(* it and the values put into it.                                          *)
(*                                                                         *)
(* Further specifications follow the task manager (task_manager.py), the   *)
(* download-and-pipeline wrapper of the router, get_model_response, and    *)
(* the polling loops of aippt_client.py and volc_client.py.                *)
(***************************************************************************)
EXTENDS Integers, Sequences, FiniteSets, TLC

VARIABLES
    filename,                  \* the filename argument, split at its dots
    file_content,              \* what the extractor yields for the bytes
    readable,                  \* whether the extractor can parse the bytes at all
    svc,                       \* the (deterministic) model service of this run
    pc,                        \* position of the calling thread
    document_units,            \* list of DocumentUnit records
    use_direct_output_mode,
    analysis_tasks,            \* list of (prompt, image_chunk, task_info)
    fut,                       \* state of the future of each analysis task
    yielded,                   \* futures as_completed has already handed out
    per_unit_analysis_results, \* unit_identifier -> list of results
    unit_pos,                  \* loop index of the aggregate-mode assembly loop
    final_content_parts,
    call_log,                  \* model-service calls in the order they started
    report,                    \* the value returned to the caller
    sep_pc,                    \* position in a call of _add_separators_for_non_ascii
    arg_text,                  \* its argument text, as runs of characters
    arg_limit,                 \* its argument limit
    char_pos,                  \* characters of text the for loop has consumed
    non_ascii_counter,
    new_parts,                 \* chars appended so far, as runs; "S" is a separator
    separated,                 \* the string it returned
    settings,                  \* config.settings: TASK_MAX_RETRIES
    task_storage,              \* the ids that are keys of _task_storage
    task_dict,                 \* the dict object created for each id
    task_lock,                 \* 0, or the id of the job that holds _task_lock
    runner,                    \* the background job of each task
    poll,                      \* the handlers of GET /tasks/{task_id}
    timers,                    \* cleanup Timers started and not yet expired, per task
    api_configured,            \* get_model_response: an API key and a base URL are set
    arg_prompt,                \* its argument prompt
    image_bytes_list,          \* its argument image_bytes_list
    call_pc,                   \* position in the call
    image_pos,                 \* images the for loop of line 108 has consumed
    valid_image_urls,
    content,                   \* the content list of the user message
    api_requests,              \* requests the API client has been given
    call_outcome,              \* what the call returned or raised
    wrapper_pc,                \* position in a call of task_wrapper_for_url
    temp_dir,                  \* the files in settings.TEMP_DIR
    download_path,             \* local_filepath of download_file
    local_file_path,           \* local_file_path of the wrapper, 0 for None
    content_read,              \* the file whose bytes the wrapper has read, 0 for none
    pipeline_calls,            \* calls of target_func the wrapper has made
    ppt_pc,                    \* position in a call of aippt_client.generate_ppt
    ppt_clock,                 \* time.time() - start_time, in seconds
    ppt_polls,                 \* calls of _poll_progress made
    progress_resp,             \* what the last _poll_progress returned
    ppt_outcome,               \* what generate_ppt returned or raised
    volc_pc,                   \* position in a call of volc_client.run_transcription
    submit_code,               \* X-Api-Status-Code of the submit response
    query_code,                \* X-Api-Status-Code of the last query response
    x_tt_logid,                \* the log id sent with the next query
    current_sleep_time,        \* in sixty-fourths of a second
    volc_polls,                \* query requests made
    volc_outcome               \* what run_transcription returned or raised

vars == <<filename, file_content, readable, svc, pc, document_units, use_direct_output_mode,
          analysis_tasks, fut, yielded, per_unit_analysis_results, unit_pos,
          final_content_parts, call_log, report,
          sep_pc, arg_text, arg_limit, char_pos, non_ascii_counter, new_parts, separated,
          settings, task_storage, task_dict, task_lock, runner, poll, timers,
          api_configured, arg_prompt, image_bytes_list, call_pc, image_pos, valid_image_urls,
          content, api_requests, call_outcome,
          wrapper_pc, temp_dir, download_path, local_file_path, content_read, pipeline_calls,
          ppt_pc, ppt_clock, ppt_polls, progress_resp, ppt_outcome,
          volc_pc, submit_code, query_code, x_tt_logid, current_sleep_time, volc_polls,
          volc_outcome>>

\* the locals of _add_separators_for_non_ascii
sepVars == <<sep_pc, arg_text, arg_limit, char_pos, non_ascii_counter, new_parts, separated>>

\* the state of process_document_images
pipelineVars ==
    <<filename, file_content, readable, svc, pc, document_units, use_direct_output_mode,
      analysis_tasks, fut, yielded, per_unit_analysis_results, unit_pos,
      final_content_parts, call_log, report>>

\* the state of the task manager and of its callers
taskVars == <<settings, task_storage, task_dict, task_lock, runner, poll, timers>>

\* the arguments and locals of get_model_response
callVars == <<api_configured, arg_prompt, image_bytes_list, call_pc, image_pos, valid_image_urls,
              content, api_requests, call_outcome>>

\* the locals of task_wrapper_for_url and download_file, and the temp directory
jobVars == <<wrapper_pc, temp_dir, download_path, local_file_path, content_read, pipeline_calls>>

\* the locals of generate_ppt
pptVars == <<ppt_pc, ppt_clock, ppt_polls, progress_resp, ppt_outcome>>

\* the locals of run_transcription, _submit_task and _poll_for_result
volcVars == <<volc_pc, submit_code, query_code, x_tt_logid, current_sleep_time, volc_polls,
              volc_outcome>>

\* the state of the service's clients
extVars == <<callVars, jobVars, pptVars, volcVars>>

----------------------------------------------------------------------------
(* Program constants *)

BATCH_SIZE == 8
MAX_WORKERS == 5
DIRECT_UNIT_LIMIT == 10
LENGTH_BUDGET == 8000
TRUNCATE_AT == 7990

(* Bounds of the model *)

MaxPlanUnits == 12      \* units of a document in the planner specification
MaxPlanImages == 17     \* images of the first unit in the planner specification
MaxTextUnits == 3       \* units of a document without images
MaxBacklog == 1         \* finished futures the collecting thread has not taken yet
CharsPerImage == 500    \* length of the stub service's answer, per image shown
SummaryChars == 100     \* length of the stub service's summary
MaxStoredTasks == 1     \* tasks created in the task-manager specification
MaxPollers == 2         \* status requests served at the same time
MaxTimers == 2          \* cleanup timers pending for one task
MaxRetries == 3         \* largest TASK_MAX_RETRIES tried

Min(a, b) == IF a < b THEN a ELSE b

\* s[lo] + ... + s[hi], by halves
RECURSIVE SumRange(_, _, _)
SumRange(s, lo, hi) ==
    IF lo > hi THEN 0
    ELSE IF lo = hi THEN s[lo]
    ELSE SumRange(s, lo, (lo + hi) \div 2) + SumRange(s, (lo + hi) \div 2 + 1, hi)

SumSeq(s) == SumRange(s, 1, Len(s))

\* ss[lo] \o ... \o ss[hi], by halves
RECURSIVE FlattenRange(_, _, _)
FlattenRange(ss, lo, hi) ==
    IF lo > hi THEN <<>>
    ELSE IF lo = hi THEN ss[lo]
    ELSE FlattenRange(ss, lo, (lo + hi) \div 2) \o FlattenRange(ss, (lo + hi) \div 2 + 1, hi)

Flatten(ss) == FlattenRange(ss, 1, Len(ss))

SeqMap(Op(_), s) == [i \in 1..Len(s) |-> Op(s[i])]

Range(s) == {s[i] : i \in 1..Len(s)}

----------------------------------------------------------------------------
(* Text helpers *)

IsSpace(c) == c = " "

RECURSIVE LStrip(_)
LStrip(t) == IF t # <<>> /\ IsSpace(Head(t)) THEN LStrip(Tail(t)) ELSE t

RECURSIVE RStrip(_)
RStrip(t) ==
    IF t # <<>> /\ IsSpace(t[Len(t)]) THEN RStrip(SubSeq(t, 1, Len(t) - 1)) ELSE t

\* str.strip()
Strip(t) == RStrip(LStrip(t))

\* the extension compared as it is written
AsWritten(s) == s

\* str.lower() on the extensions the model uses
Lower(s) ==
    CASE s = "PDF" -> "pdf"
      [] s = "Pptx" -> "pptx"
      [] s = "DOCX" -> "docx"
      [] s = "XLSX" -> "xlsx"
      [] s = "TXT" -> "txt"
      [] OTHER -> s

\* filename.split('.')[-1].lower()
FileExt(name) == Lower(name[Len(name)])

SupportedExts == {"pptx", "pdf", "docx", "xlsx"}

\* extraction_map
extraction_map ==
    [pptx |-> "_extract_from_pptx", pdf |-> "_extract_from_pdf",
     docx |-> "_extract_from_docx", xlsx |-> "_extract_from_xlsx"]

----------------------------------------------------------------------------
(* Units *)

\* An image blob: opaque bytes, here the pair (unit, position) as one number.
Blob(u, k) == u * 100 + k

\* A DocumentUnit; identifier u stands for the extractor's f"... {u}".
Unit(u, text, n) ==
    [unit_identifier |-> u, text |-> text, images |-> [k \in 1..n |-> Blob(u, k)]]

\* only the full chunks: range(0, len(data) - size + 1, size)
ChunkListFullOnly(data, size) ==
    [c \in 1..(Len(data) \div size) |-> SubSeq(data, (c - 1) * size + 1, c * size)]

\* _chunk_list(data, size): data[i:i+size] for i in range(0, len(data), size)
ChunkList(data, size) ==
    [c \in 1..((Len(data) + size - 1) \div size) |->
        SubSeq(data, (c - 1) * size + 1, Min(c * size, Len(data)))]

\* units_with_images = [u for u in document_units if u['images']]
HasImages(u) == u.images # <<>>
UnitsWithImages(units) == SelectSeq(units, HasImages)

IsUnpaginated(ext) == ext \in {"docx", "xlsx"}

\* the threshold applied to all units, with or without images
UseDirectCountingAllUnits(ext, units) ==
    IsUnpaginated(ext) \/ Len(units) <= DIRECT_UNIT_LIMIT

\* use_direct_output_mode = is_unpaginated or len(units_with_images) <= 10
UseDirectOutputMode(ext, units) ==
    IsUnpaginated(ext) \/ Len(UnitsWithImages(units)) <= DIRECT_UNIT_LIMIT

\* not any(unit['images'] for unit in document_units)
NoImages(units) == \A i \in 1..Len(units) : ~HasImages(units[i])

DirectPrompt == [tpl |-> "DIRECT_ANALYSIS_PROMPT"]

Stage1Prompt(unit, chunk) ==
    [tpl |-> "STAGE1_PROMPT_TEMPLATE", unit_identifier |-> unit.unit_identifier,
     text |-> unit.text, image_count |-> Len(chunk)]

\* the tasks of one unit: one per chunk, task_info = (unit_identifier, i), i from 0
UnitTasks(unit, direct) ==
    LET chunks == ChunkList(unit.images, BATCH_SIZE)
    IN  [c \in 1..Len(chunks) |->
            [prompt |-> IF direct THEN DirectPrompt ELSE Stage1Prompt(unit, chunks[c]),
             images |-> chunks[c],
             info |-> <<unit.unit_identifier, c - 1>>]]

\* analysis_tasks: the nested loop over units_with_images and their chunks
PlanTasks(units, direct) ==
    LET uwi == UnitsWithImages(units)
    IN  Flatten([i \in 1..Len(uwi) |-> UnitTasks(uwi[i], direct)])

----------------------------------------------------------------------------
(* The model service: model_interactor.get_model_response as the pipeline  *)
(* sees it.  svc fixes, for the run, which calls raise.                    *)

Stage2Prompt(identifier, combined_analyses) ==
    [tpl |-> "STAGE2_AGGREGATION_PROMPT", unit_identifier |-> identifier,
     combined_analyses |-> combined_analyses]

SummarizationPrompt(text) == [tpl |-> "SUMMARIZATION_PROMPT", report |-> text]

ServiceRaises(prompt, images) ==
    CASE prompt.tpl = "STAGE2_AGGREGATION_PROMPT" -> prompt.unit_identifier \in svc.bad_merges
      [] prompt.tpl = "SUMMARIZATION_PROMPT" -> svc.bad_summary
      [] OTHER -> \E k \in 1..Len(images) : images[k] \in svc.bad_images

\* response.choices[0].message.content
ModelResponse(prompt, images) == [kind |-> "response", prompt |-> prompt, images |-> images]

\* str(e) of the ModelProcessingError the call raises
ModelError(prompt, images) == [kind |-> "error", prompt |-> prompt, images |-> images]

GetModelResponse(prompt, images) ==
    IF ServiceRaises(prompt, images)
    THEN [raised |-> TRUE, value |-> ModelError(prompt, images)]
    ELSE [raised |-> FALSE, value |-> ModelResponse(prompt, images)]

----------------------------------------------------------------------------
(* The executor stage *)

Tasks == 1..Len(analysis_tasks)

InFlight == {i \in Tasks : fut[i] = "running"}

\* a pool without a width: a thread per work item
WorkerAlwaysAvailable == TRUE

\* a pool thread is free to take the next work item
WorkerAvailable == Cardinality(InFlight) < MAX_WORKERS

\* futures that are finished and that as_completed has not handed out yet
Backlog == {i \in Tasks : fut[i] = "finished" /\ i \notin yielded}

\* the work queue is FIFO: the oldest submitted task that has not started
QueueHead(i) == fut[i] = "pending" /\ \A j \in 1..(i - 1) : fut[j] # "pending"

\* the loop left after the first future
AnyYielded == yielded # {}

\* the as_completed loop has handed out every future
AllYielded == yielded = Tasks

\* per_unit_analysis_results[unit_identifier] = [entry]
RecordOverwriting(results, unit_identifier, entry) ==
    [results EXCEPT ![unit_identifier] = <<entry>>]

\* every entry appended to the list of the first unit
RecordUnderFirstUnit(results, unit_identifier, entry) ==
    LET first == CHOOSE u \in DOMAIN results : \A v \in DOMAIN results : u <= v
    IN  [results EXCEPT ![first] = Append(@, entry)]

\* per_unit_analysis_results[unit_identifier].append(entry)
Record(results, unit_identifier, entry) ==
    [results EXCEPT ![unit_identifier] = Append(@, entry)]

\* f"批次 {chunk_index} 分析失败: {e}"
DirectFailure(chunk_index, e) == [kind |-> "batch_failed", batch |-> chunk_index, e |-> e]

\* f"分析失败: {e}"
AggregateFailure(e) == [kind |-> "failed", e |-> e]

\* the entry the as_completed loop appends for task t in direct mode
DirectEntry(t) ==
    LET out == GetModelResponse(t.prompt, t.images)
    IN  <<t.info[2], IF out.raised THEN DirectFailure(t.info[2], out.value) ELSE out.value>>

\* the entry the as_completed loop appends for task t in aggregate mode
AggregateEntry(t) ==
    LET out == GetModelResponse(t.prompt, t.images)
    IN  IF out.raised THEN AggregateFailure(out.value) ELSE out.value

----------------------------------------------------------------------------
(* Assembly *)

NoTextNote == <<"NO_TEXT_NOTE">>

\* f"### {identifier}\n\n{text_part if text_part else '此单元无文本内容。'}"
UnitSection(unit) ==
    LET text_part == Strip(unit.text)
    IN  [part |-> "unit_section", identifier |-> unit.unit_identifier,
         text |-> IF text_part # <<>> THEN text_part ELSE NoTextNote]

\* the analysis section without the failure placeholders
ImageAnalysisOfSuccesses(analysis_texts) ==
    [part |-> "image_analysis",
     analyses |-> SelectSeq(analysis_texts, LAMBDA a : a.kind = "response")]

\* f"\n--- 图片分析 ---\n\n{combined_analysis}", the analyses joined by "\n\n"
ImageAnalysis(analysis_texts) ==
    [part |-> "image_analysis", analyses |-> analysis_texts]

\* insert entry e into the sorted list s after every entry whose key is <= its own
RECURSIVE InsertByIndex(_, _)
InsertByIndex(e, s) ==
    IF s = <<>> THEN <<e>>
    ELSE IF e[1] < Head(s)[1] THEN <<e>> \o s
    ELSE <<Head(s)>> \o InsertByIndex(e, Tail(s))

\* analyses.sort(key=lambda x: x[0]): a stable sort on the chunk index
RECURSIVE SortByIndex(_)
SortByIndex(s) ==
    IF s = <<>> THEN <<>>
    ELSE InsertByIndex(s[Len(s)], SortByIndex(SubSeq(s, 1, Len(s) - 1)))

\* a unit one of whose batches failed shows that failure alone
DirectUnitPartsFailureOnly(unit, results) ==
    LET analyses == SortByIndex(results[unit.unit_identifier])
        failed == SelectSeq(analyses, LAMBDA a : a[2].kind = "batch_failed")
        shown == IF failed # <<>> THEN <<failed[1]>> ELSE analyses
    IN  <<UnitSection(unit)>> \o
        (IF HasImages(unit) /\ analyses # <<>>
         THEN <<ImageAnalysis([i \in 1..Len(shown) |-> shown[i][2]])>>
         ELSE <<>>)

\* the parts the direct-mode loop appends for one unit
DirectUnitParts(unit, results) ==
    LET analyses == results[unit.unit_identifier]
    IN  <<UnitSection(unit)>> \o
        (IF HasImages(unit) /\ analyses # <<>>
         THEN <<ImageAnalysis([i \in 1..Len(analyses) |-> SortByIndex(analyses)[i][2]])>>
         ELSE <<>>)

\* the loop walking the units last to first
DirectPartsReversed(units, results) ==
    Flatten([i \in 1..Len(units) |-> DirectUnitParts(units[Len(units) + 1 - i], results)])

\* the direct-mode loop over document_units
DirectParts(units, results) ==
    Flatten([i \in 1..Len(units) |-> DirectUnitParts(units[i], results)])

\* f"--- {identifier} (无图片) ---\n{unit['text']}"
NoImageUnit(unit) ==
    [part |-> "no_image_unit", identifier |-> unit.unit_identifier, text |-> unit.text]

\* f"### 对 {identifier} 的分析\n{analyses[0]}"
SingleAnalysis(identifier, analysis) ==
    [part |-> "unit_analysis", identifier |-> identifier, analysis |-> analysis]

\* the aggregated_result of a merge call, appended as it is
Merged(aggregated_result) == [part |-> "merged", aggregated_result |-> aggregated_result]

\* the error header followed by the first report alone
MergeFailedFirstOnly(identifier, analyses) ==
    [part |-> "merge_failed", identifier |-> identifier, analyses |-> <<analyses[1]>>]

\* error_header + "\n\n" + combined_analyses, the analyses joined by "\n\n---\n"
MergeFailed(identifier, analyses) ==
    [part |-> "merge_failed", identifier |-> identifier, analyses |-> analyses]

HasText(u) == u.text # <<>>

MergeCall(identifier, analyses) ==
    [prompt |-> Stage2Prompt(identifier, analyses), images |-> <<>>]

\* any non-empty list taken as a single result
IsSingleOrMore(analyses) == Len(analyses) >= 1

\* len(analyses) == 1
IsSingle(analyses) == Len(analyses) = 1

\* len(analyses) > 1
NeedsMerge(analyses) == Len(analyses) > 1

\* what one iteration of the aggregate-mode loop appends for a unit whose
\* collected results are analyses (lines 224-240)
AggregateUnitParts(unit, analyses) ==
    IF ~HasImages(unit)
    THEN IF HasText(unit) THEN <<NoImageUnit(unit)>> ELSE <<>>
    ELSE IF IsSingle(analyses)
    THEN <<SingleAnalysis(unit.unit_identifier, analyses[1])>>
    ELSE IF NeedsMerge(analyses)
    THEN LET call == MergeCall(unit.unit_identifier, analyses)
             out == GetModelResponse(call.prompt, call.images)
         IN  <<IF out.raised THEN MergeFailed(unit.unit_identifier, analyses)
               ELSE Merged(out.value)>>
    ELSE <<>>

\* the notice with every unit, its text empty or not
NoImagesReportUnfiltered(units) ==
    [kind |-> "no_images_notice",
     all_texts |-> [i \in 1..Len(units) |->
                      [identifier |-> units[i].unit_identifier, text |-> units[i].text]]]

\* f"--- {unit['unit_identifier']} ---\n{unit['text']}" for the units with text
UnitText(u) == [identifier |-> u.unit_identifier, text |-> u.text]
NoImagesReport(units) ==
    [kind |-> "no_images_notice", all_texts |-> SeqMap(UnitText, SelectSeq(units, HasText))]

----------------------------------------------------------------------------
(* The characters of a string, as runs: [c |-> class, n |-> how many], the  *)
(* class "N" for code points >= 128, "W" for ASCII white space, "A" for any *)
(* other ASCII character.  Render gives the runs of the string a part or a *)
(* result stands for; the literals are those of the source's f-strings.    *)

SEPARATOR_LIMIT == 2000

Run(c, n) == <<[c |-> c, n |-> n]>>

CharRun(ch) == Run(IF ch = " " THEN "W" ELSE IF ch = "a" THEN "A" ELSE "N", 1)

\* the runs of a unit text (a sequence of characters)
TextRuns(t) == Flatten([i \in 1..Len(t) |-> CharRun(t[i])])

\* str(i) for 0 <= i < 100
IntRuns(i) == Run("A", IF i < 10 THEN 1 ELSE 2)

\* unit_identifier as the extractor of the format writes it:
\* f"幻灯片 {i}", f"页面 {i}", "文档内容", f"工作表 '{sheet.title}'" (title Sheet<i>)
IdentifierRuns(ext, u) ==
    CASE ext = "pptx" -> Run("N", 3) \o Run("W", 1) \o IntRuns(u)
      [] ext = "pdf" -> Run("N", 2) \o Run("W", 1) \o IntRuns(u)
      [] ext = "docx" -> Run("N", 4)
      [] OTHER -> Run("N", 3) \o Run("W", 1) \o Run("A", 6) \o IntRuns(u) \o Run("A", 1)

RunsLen(runs) == SumSeq([i \in 1..Len(runs) |-> runs[i].n])

\* sep.join(texts) on runs
JoinRuns(sep, texts) ==
    Flatten([i \in 1..Len(texts) |-> IF i = 1 THEN texts[i] ELSE sep \o texts[i]])

\* the stub service's texts: an answer to an analysis call has
\* svc.reply_chars non-ASCII characters per image shown, an answer to a merge
\* call is as long as the reports it merges, a summary has svc.summary_chars
\* characters, an error message is the interactor's
\* "调用模型API时发生严重错误: " and a seven-letter reason.
RECURSIVE ValueRuns(_)
ValueRuns(v) ==
    CASE v.kind = "response" ->
            IF v.prompt.tpl = "STAGE2_AGGREGATION_PROMPT"
            THEN Run("N", RunsLen(Flatten(SeqMap(ValueRuns, v.prompt.combined_analyses))))
            ELSE IF v.prompt.tpl = "SUMMARIZATION_PROMPT"
            THEN Run("N", svc.summary_chars)
            ELSE Run("N", svc.reply_chars * Len(v.images))
      [] v.kind = "error" ->
            Run("N", 4) \o Run("A", 3) \o Run("N", 7) \o Run("A", 1) \o Run("W", 1) \o Run("A", 7)
      [] v.kind = "batch_failed" ->
            Run("N", 2) \o Run("W", 1) \o IntRuns(v.batch) \o Run("W", 1) \o Run("N", 4)
                \o Run("A", 1) \o Run("W", 1) \o ValueRuns(v.e)
      [] OTHER -> \* "failed"
            Run("N", 4) \o Run("A", 1) \o Run("W", 1) \o ValueRuns(v.e)

PartRuns(ext, p) ==
    CASE p.part = "unit_section" ->
            Run("A", 3) \o Run("W", 1) \o IdentifierRuns(ext, p.identifier) \o Run("W", 2)
                \o (IF p.text = NoTextNote THEN Run("N", 9) ELSE TextRuns(p.text))
      [] p.part = "image_analysis" ->
            Run("W", 1) \o Run("A", 3) \o Run("W", 1) \o Run("N", 4) \o Run("W", 1)
                \o Run("A", 3) \o Run("W", 2)
                \o JoinRuns(Run("W", 2), SeqMap(ValueRuns, p.analyses))
      [] p.part = "no_image_unit" ->
            Run("A", 3) \o Run("W", 1) \o IdentifierRuns(ext, p.identifier) \o Run("W", 1)
                \o Run("A", 1) \o Run("N", 3) \o Run("A", 1) \o Run("W", 1) \o Run("A", 3)
                \o Run("W", 1) \o TextRuns(p.text)
      [] p.part = "unit_analysis" ->
            Run("A", 3) \o Run("W", 1) \o Run("N", 1) \o Run("W", 1)
                \o IdentifierRuns(ext, p.identifier)
                \o Run("W", 1) \o Run("N", 3) \o Run("W", 1) \o ValueRuns(p.analysis)
      [] p.part = "merged" -> ValueRuns(p.aggregated_result)
      [] OTHER -> \* "merge_failed"
            Run("A", 3) \o Run("W", 1) \o Run("N", 1) \o Run("W", 1)
                \o IdentifierRuns(ext, p.identifier)
                \o Run("W", 1) \o Run("N", 3) \o Run("W", 1) \o Run("A", 1) \o Run("N", 4)
                \o Run("A", 1) \o Run("W", 2) \o Run("A", 2) \o Run("N", 2) \o Run("A", 3)
                \o Run("W", 1) \o Run("N", 27) \o Run("W", 2) \o Run("A", 3)
                \o Run("W", 2)
                \o JoinRuns(Run("W", 2) \o Run("A", 3) \o Run("W", 1),
                            SeqMap(ValueRuns, p.analyses))

RECURSIVE LStripRuns(_)
LStripRuns(r) == IF r # <<>> /\ Head(r).c = "W" THEN LStripRuns(Tail(r)) ELSE r

RECURSIVE RStripRuns(_)
RStripRuns(r) ==
    IF r # <<>> /\ r[Len(r)].c = "W" THEN RStripRuns(SubSeq(r, 1, Len(r) - 1)) ELSE r

\* initial_report = "\n\n".join(final_content_parts).strip()
InitialReportRuns(ext, parts) ==
    RStripRuns(LStripRuns(
        JoinRuns(Run("W", 2), [i \in 1..Len(parts) |-> PartRuns(ext, parts[i])])))

\* a separator with three dashes: "\n---\n"
ShortSeparatorRuns == Run("W", 1) \o Run("A", 3) \o Run("W", 1)

\* "\n----\n"
SeparatorRuns == Run("W", 1) \o Run("A", 4) \o Run("W", 1)

\* a run of n non-ASCII characters met with the counter at k < limit
RECURSIVE SplitNonAscii(_, _, _)
SplitNonAscii(n, k, limit) ==
    IF k + n < limit THEN Run("N", n)
    ELSE Run("N", limit - k) \o SeparatorRuns
            \o (IF n - (limit - k) > 0 THEN SplitNonAscii(n - (limit - k), 0, limit) ELSE <<>>)

\* the loop of _add_separators_for_non_ascii over runs[lo..hi], entered with
\* non_ascii_counter = k: what it appends and the counter it leaves (the
\* range is walked left to right, split in halves to keep the nesting flat)
RECURSIVE AddSeparatorsRange(_, _, _, _, _)
AddSeparatorsRange(runs, lo, hi, k, limit) ==
    IF lo > hi THEN [out |-> <<>>, counter |-> k]
    ELSE IF lo = hi
    THEN IF runs[lo].c = "N"
         THEN [out |-> SplitNonAscii(runs[lo].n, k, limit),
               counter |-> (k + runs[lo].n) % limit]
         ELSE [out |-> <<runs[lo]>>, counter |-> 0]
    ELSE LET mid == (lo + hi) \div 2
             left == AddSeparatorsRange(runs, lo, mid, k, limit)
             right == AddSeparatorsRange(runs, mid + 1, hi, left.counter, limit)
         IN  [out |-> left.out \o right.out, counter |-> right.counter]

AddSeparatorsForNonAscii(runs, limit) ==
    AddSeparatorsRange(runs, 1, Len(runs), 0, limit).out

\* s[:m] on runs: the runs that end within the first m characters, and the
\* head of the run that crosses the m-th
TakeRuns(runs, m) ==
    LET before(i) == SumRange([j \in 1..Len(runs) |-> runs[j].n], 1, i - 1)
        whole == {i \in 1..Len(runs) : before(i) + runs[i].n <= m}
        cut == Cardinality(whole) + 1
    IN  SubSeq(runs, 1, Cardinality(whole))
            \o (IF cut <= Len(runs) /\ m - before(cut) > 0
                THEN Run(runs[cut].c, m - before(cut)) ELSE <<>>)

\* "\n\n[...报告过长且总结失败，已被截断...]"
TruncationMarker == Run("W", 2) \o Run("A", 4) \o Run("N", 14) \o Run("A", 4)

\* the characters of the no-images report (line 128): the notice
\* "文档中未找到图片，返回提取的文本内容。\n\n", then the sections
\* f"--- {id} ---\n{text}" joined by "\n\n"
NoticeRuns(ext, all_texts) ==
    Run("N", 19) \o Run("W", 2)
        \o JoinRuns(Run("W", 2),
                    [i \in 1..Len(all_texts) |->
                        Run("A", 3) \o Run("W", 1) \o IdentifierRuns(ext, all_texts[i].identifier)
                            \o Run("W", 1) \o Run("A", 3) \o Run("W", 1)
                            \o TextRuns(all_texts[i].text)])

----------------------------------------------------------------------------
(* Post-processing values *)

\* the report string: the parts it was joined from and its characters
ReportText(parts, runs) == [kind |-> "report", parts |-> parts, runs |-> runs]

\* report_with_separators
ReportWithSeparators(ext, parts) ==
    AddSeparatorsForNonAscii(InitialReportRuns(ext, parts), SEPARATOR_LIMIT)

\* final_length >= 8000
AtOrOverBudget(ext, parts) == RunsLen(ReportWithSeparators(ext, parts)) >= LENGTH_BUDGET

\* final_length > 8000
OverBudget(ext, parts) == RunsLen(ReportWithSeparators(ext, parts)) > LENGTH_BUDGET

SummaryCall(ext, parts) ==
    [prompt |-> SummarizationPrompt(ReportText(parts, ReportWithSeparators(ext, parts))),
     images |-> <<>>]

\* report_with_separators[:8000] + "\n\n[...报告过长且总结失败，已被截断...]"
TruncatedAtBudget(ext, parts) ==
    [kind |-> "truncated", parts |-> parts,
     runs |-> TakeRuns(ReportWithSeparators(ext, parts), LENGTH_BUDGET) \o TruncationMarker]

\* report_with_separators[:7990] + "\n\n[...报告过长且总结失败，已被截断...]"
Truncated(ext, parts) ==
    [kind |-> "truncated", parts |-> parts,
     runs |-> TakeRuns(ReportWithSeparators(ext, parts), TRUNCATE_AT) \o TruncationMarker]

\* post-processing that checks the summary against the budget and falls
\* back to the truncation when it is too long
FinalReportRevalidated(ext, parts) ==
    IF OverBudget(ext, parts)
    THEN LET call == SummaryCall(ext, parts)
             out == GetModelResponse(call.prompt, call.images)
         IN  IF out.raised \/ svc.summary_chars > LENGTH_BUDGET
             THEN Truncated(ext, parts) ELSE out.value
    ELSE ReportText(parts, ReportWithSeparators(ext, parts))

\* what the post-processing returns for the assembled parts (lines 246-282)
FinalReport(ext, parts) ==
    IF OverBudget(ext, parts)
    THEN LET call == SummaryCall(ext, parts)
             out == GetModelResponse(call.prompt, call.images)
         IN  IF out.raised THEN Truncated(ext, parts) ELSE out.value
    ELSE ReportText(parts, ReportWithSeparators(ext, parts))

----------------------------------------------------------------------------
(* The task manager (task_manager.py) and the endpoints that use it.       *)

\* class TaskStatus
PENDING == "pending"
PROCESSING == "processing"
COMPLETED == "completed"
FAILED == "failed"

TaskIds == 1..MaxStoredTasks
Pollers == 1..MaxPollers

\* Python's None, a value returned by the target function at its k-th
\* attempt (k from 0), and str(e) of the exception raised at that attempt
None == [kind |-> "None", attempt |-> 0, error |-> "-"]
ReturnValue(k) == [kind |-> "return value", attempt |-> k, error |-> "-"]
ErrorMessage(k) == [kind |-> "str(e)", attempt |-> k, error |-> "-"]

\* {"error": e}
ErrorBody(e) == [kind |-> "error", attempt |-> e.attempt, error |-> e.kind]

\* no dict object exists yet for the id
NoTask == [status |-> "absent", result |-> None, error |-> None]

\* {"status": TaskStatus.PENDING, "result": None, "error": None}
NewTask == [status |-> PENDING, result |-> None, error |-> None]

\* a background job that has not been created
NoRunner == [via |-> "none", rpc |-> "none", attempt |-> 0, calls |-> 0, local |-> None]

\* a request handler of get_task_status that is not serving a request
NoPoll ==
    [ppc |-> "idle", task_id |-> 0, status |-> "none",
     response_data |-> [code |-> 0, status |-> "none", result |-> None]]

\* config.py: TASK_MAX_RETRIES: int = 3
DefaultSettings == [TASK_MAX_RETRIES |-> 3]

\* nothing has been created
TasksIdle ==
    /\ settings = DefaultSettings
    /\ task_storage = {}
    /\ task_dict = [t \in TaskIds |-> NoTask]
    /\ task_lock = 0
    /\ runner = [t \in TaskIds |-> NoRunner]
    /\ poll = [p \in Pollers |-> NoPoll]
    /\ timers = [t \in TaskIds |-> 0]

\* _task_lock is not held
LockFree == task_lock = 0

\* create_task() in an endpoint, then background_tasks.add_task: the job is
\* run_task_in_background (analyze_document_images) or task_wrapper (execute_mcp)
CreateTask(t, via) ==
    /\ UNCHANGED <<pipelineVars, sepVars, extVars>>
    /\ LockFree
    /\ task_dict[t] = NoTask
    /\ \A u \in 1..(t - 1) : task_dict[u] # NoTask
    /\ task_dict' = [task_dict EXCEPT ![t] = NewTask]
    /\ task_storage' = task_storage \cup {t}
    /\ runner' = [runner EXCEPT ![t] = [NoRunner EXCEPT !.via = via, !.rpc = "queued"]]
    /\ UNCHANGED <<settings, task_lock, poll, timers>>

\* run_task_in_background lines 68-69: status = PROCESSING under the lock
RunStart(t) ==
    /\ UNCHANGED <<pipelineVars, sepVars, extVars>>
    /\ runner[t].via = "run_task_in_background"
    /\ runner[t].rpc = "queued"
    /\ LockFree
    /\ t \in task_storage
    /\ task_dict' = [task_dict EXCEPT ![t].status = PROCESSING]
    /\ runner' = [runner EXCEPT ![t].rpc = "loop"]
    /\ UNCHANGED <<settings, task_storage, task_lock, poll, timers>>

\* for attempt in range(settings.TASK_MAX_RETRIES): the next iteration, if any
LoopHasNext(t) == runner[t].attempt < settings.TASK_MAX_RETRIES

\* line 75 (run_task_in_background) or line 181 (task_wrapper): the call starts
CallTarget(t) ==
    /\ UNCHANGED <<pipelineVars, sepVars, extVars>>
    /\ \/ runner[t].via = "run_task_in_background" /\ runner[t].rpc = "loop" /\ LoopHasNext(t)
       \/ runner[t].via = "task_wrapper" /\ runner[t].rpc = "queued"
    /\ runner' = [runner EXCEPT ![t].rpc = "calling", ![t].calls = @ + 1]
    /\ UNCHANGED <<settings, task_storage, task_dict, task_lock, poll, timers>>

\* the call returns a value
TargetReturns(t) ==
    /\ UNCHANGED <<pipelineVars, sepVars, extVars>>
    /\ runner[t].rpc = "calling"
    /\ runner' = [runner EXCEPT ![t].rpc = "returned",
                                ![t].local = ReturnValue(runner[t].attempt)]
    /\ UNCHANGED <<settings, task_storage, task_dict, task_lock, poll, timers>>

\* the call raises
TargetRaises(t) ==
    /\ UNCHANGED <<pipelineVars, sepVars, extVars>>
    /\ runner[t].rpc = "calling"
    /\ runner' = [runner EXCEPT ![t].rpc = "raised",
                                ![t].local = ErrorMessage(runner[t].attempt)]
    /\ UNCHANGED <<settings, task_storage, task_dict, task_lock, poll, timers>>

\* lines 78-79 (182-183 in task_wrapper): take the lock, status = COMPLETED
SetCompleted(t) ==
    /\ UNCHANGED <<pipelineVars, sepVars, extVars>>
    /\ runner[t].rpc = "returned"
    /\ LockFree
    /\ t \in task_storage
    /\ task_lock' = t
    /\ task_dict' = [task_dict EXCEPT ![t].status = COMPLETED]
    /\ runner' = [runner EXCEPT ![t].rpc = "completed_set"]
    /\ UNCHANGED <<settings, task_storage, poll, timers>>

\* line 80 (184): result = result, release the lock, return
SetResult(t) ==
    /\ UNCHANGED <<pipelineVars, sepVars, extVars>>
    /\ runner[t].rpc = "completed_set"
    /\ task_lock = t
    /\ task_dict' = [task_dict EXCEPT ![t].result = runner[t].local]
    /\ task_lock' = 0
    /\ runner' = [runner EXCEPT ![t].rpc = "exited"]
    /\ UNCHANGED <<settings, task_storage, poll, timers>>

\* the loop of a wrapper that gives up one attempt early
IsLastAttemptEarly(t) ==
    \/ runner[t].via = "task_wrapper"
    \/ runner[t].attempt >= settings.TASK_MAX_RETRIES - 2

\* a loop that does not retry the pipeline's unsupported-format error
IsLastAttemptOrFatal(t) ==
    \/ runner[t].via = "task_wrapper"
    \/ runner[t].attempt = settings.TASK_MAX_RETRIES - 1
    \/ pc = "fatal"

\* is_last_attempt = (attempt == settings.TASK_MAX_RETRIES - 1); task_wrapper
\* calls once
IsLastAttempt(t) ==
    \/ runner[t].via = "task_wrapper"
    \/ runner[t].attempt = settings.TASK_MAX_RETRIES - 1

\* a retry that puts the task back to PENDING while it waits
RetryAfterSleepRequeued(t) ==
    /\ UNCHANGED <<pipelineVars, sepVars, extVars>>
    /\ runner[t].rpc = "raised"
    /\ ~IsLastAttempt(t)
    /\ LockFree
    /\ task_dict' = [task_dict EXCEPT ![t].status = PENDING]
    /\ runner' = [runner EXCEPT ![t].rpc = "loop", ![t].attempt = @ + 1]
    /\ UNCHANGED <<settings, task_storage, task_lock, poll, timers>>

\* lines 88-89: time.sleep(settings.TASK_RETRY_DELAY), then the next iteration
RetryAfterSleep(t) ==
    /\ UNCHANGED <<pipelineVars, sepVars, extVars>>
    /\ runner[t].rpc = "raised"
    /\ ~IsLastAttempt(t)
    /\ runner' = [runner EXCEPT ![t].rpc = "loop", ![t].attempt = @ + 1]
    /\ UNCHANGED <<settings, task_storage, task_dict, task_lock, poll, timers>>

\* lines 92-93 (186-187): take the lock, status = FAILED
SetFailed(t) ==
    /\ UNCHANGED <<pipelineVars, sepVars, extVars>>
    /\ runner[t].rpc = "raised"
    /\ IsLastAttempt(t)
    /\ LockFree
    /\ t \in task_storage
    /\ task_lock' = t
    /\ task_dict' = [task_dict EXCEPT ![t].status = FAILED]
    /\ runner' = [runner EXCEPT ![t].rpc = "failed_set"]
    /\ UNCHANGED <<settings, task_storage, poll, timers>>

\* line 94 (188): error = str(e), release the lock, return
SetError(t) ==
    /\ UNCHANGED <<pipelineVars, sepVars, extVars>>
    /\ runner[t].rpc = "failed_set"
    /\ task_lock = t
    /\ task_dict' = [task_dict EXCEPT ![t].error = runner[t].local]
    /\ task_lock' = 0
    /\ runner' = [runner EXCEPT ![t].rpc = "exited"]
    /\ UNCHANGED <<settings, task_storage, poll, timers>>

\* what get_task_status answers when get_task returned None: HTTP 404
NotFound == [code |-> 404, status |-> "none", result |-> None]

\* get_task_status line 34: get_task(task_id) under the lock returns the
\* stored dict object itself, or None (lines 35-36: HTTPException 404)
PollGetTask(p, t) ==
    /\ UNCHANGED <<pipelineVars, sepVars, extVars>>
    /\ poll[p].ppc \in {"idle", "responded"}
    /\ LockFree
    /\ poll' = [poll EXCEPT ![p] =
                   IF t \in task_storage
                   THEN [NoPoll EXCEPT !.ppc = "have_task", !.task_id = t]
                   ELSE [NoPoll EXCEPT !.ppc = "responded", !.task_id = t,
                                       !.response_data = NotFound]]
    /\ UNCHANGED <<settings, task_storage, task_dict, task_lock, runner, timers>>

\* line 38: status = task['status'], read from the shared dict without the lock
PollReadStatus(p) ==
    /\ UNCHANGED <<pipelineVars, sepVars, extVars>>
    /\ poll[p].ppc = "have_task"
    /\ poll' = [poll EXCEPT ![p].ppc = "have_status",
                            ![p].status = task_dict[poll[p].task_id].status]
    /\ UNCHANGED <<settings, task_storage, task_dict, task_lock, runner, timers>>

\* line 39: response_data = {..., "status": status, "result": task.get('result')}
PollReadResult(p) ==
    /\ UNCHANGED <<pipelineVars, sepVars, extVars>>
    /\ poll[p].ppc = "have_status"
    /\ poll' = [poll EXCEPT ![p].ppc = "have_result",
                            ![p].response_data =
                   [code |-> 200, status |-> poll[p].status,
                    result |-> task_dict[poll[p].task_id].result]]
    /\ UNCHANGED <<settings, task_storage, task_dict, task_lock, runner, timers>>

\* schedule_task_cleanup: one more Timer is started for the task
Scheduled(t) == [timers EXCEPT ![t] = @ + 1]

\* a handler that schedules a cleanup at every answer, whatever the status
PollRespondAlwaysScheduling(p) ==
    /\ UNCHANGED <<pipelineVars, sepVars, extVars>>
    /\ poll[p].ppc = "have_result"
    /\ LET t == poll[p].task_id
       IN  /\ timers[t] < MaxTimers
           /\ timers' = Scheduled(t)
           /\ poll' = [poll EXCEPT ![p].ppc = "responded",
                                   ![p].response_data.result =
                                       IF poll[p].status = FAILED
                                       THEN ErrorBody(task_dict[t].error)
                                       ELSE @]
    /\ UNCHANGED <<settings, task_storage, task_dict, task_lock, runner>>

\* lines 42-53: the branch on status; COMPLETED and FAILED schedule a cleanup,
\* FAILED replaces the result by {"error": task.get('error', ...)}
PollRespond(p) ==
    /\ UNCHANGED <<pipelineVars, sepVars, extVars>>
    /\ poll[p].ppc = "have_result"
    /\ LET t == poll[p].task_id
       IN  CASE poll[p].status = COMPLETED ->
                   /\ timers[t] < MaxTimers
                   /\ timers' = Scheduled(t)
                   /\ poll' = [poll EXCEPT ![p].ppc = "responded"]
             [] poll[p].status = FAILED ->
                   /\ timers[t] < MaxTimers
                   /\ timers' = Scheduled(t)
                   /\ poll' = [poll EXCEPT ![p].ppc = "responded",
                                           ![p].response_data.result =
                                               ErrorBody(task_dict[t].error)]
             [] OTHER ->
                   /\ poll' = [poll EXCEPT ![p].ppc = "responded"]
                   /\ UNCHANGED timers
    /\ UNCHANGED <<settings, task_storage, task_dict, task_lock, runner>>

\* a Timer expires and runs remove_task(task_id): under the lock, delete the
\* entry if it is (still) there
TimerFires(t) ==
    /\ UNCHANGED <<pipelineVars, sepVars, extVars>>
    /\ timers[t] > 0
    /\ LockFree
    /\ timers' = [timers EXCEPT ![t] = @ - 1]
    /\ task_storage' = task_storage \ {t}
    /\ UNCHANGED <<settings, task_dict, task_lock, runner, poll>>

----------------------------------------------------------------------------
(* model_interactor.get_model_response with its images (lines 16-140).     *)
(* An image is what PIL finds in its bytes: whether Image.open succeeds,   *)
(* the format and size of the header, and whether resize and save succeed  *)
(* when _resize_image needs them.  data names the bytes.                   *)

MIN_DIMENSION == 14
MAX_DIMENSION == 1024
MaxBatchImages == 3

Image(opens, format, width, height, resizes) ==
    [opens |-> opens, format |-> format, width |-> width, height |-> height,
     resizes |-> resizes]

\* the result of a call that cannot produce a URL
NoUrl == [mime |-> "-", data |-> 0, resized |-> FALSE]

\* Image.MIME.get(format)
Mime(format) == IF format = "PNG" THEN "image/png" ELSE "image/jpeg"

\* _resize_image: the bytes and the MIME type, or an exception
ResizeImage(data, img) ==
    IF ~img.opens THEN [raised |-> TRUE, url |-> NoUrl]
    ELSE IF img.width <= MAX_DIMENSION /\ img.height <= MAX_DIMENSION
    THEN [raised |-> FALSE,
          url |-> [mime |-> Mime(img.format), data |-> data, resized |-> FALSE]]
    ELSE IF img.resizes
    THEN [raised |-> FALSE,
          url |-> [mime |-> Mime(img.format), data |-> data, resized |-> TRUE]]
    ELSE [raised |-> TRUE, url |-> NoUrl]

\* the size check that also lets through an image with one side long enough
TooSmallBothSides(img) == img.width < MIN_DIMENSION /\ img.height < MIN_DIMENSION

\* img.width < min_dimension or img.height < min_dimension
TooSmall(img) == img.width < MIN_DIMENSION \/ img.height < MIN_DIMENSION

\* _encode_image_bytes: the data URL of the image, or None (NoUrl)
EncodeImageBytes(data, img) ==
    IF ~img.opens THEN NoUrl
    ELSE IF TooSmall(img) THEN NoUrl
    ELSE IF ResizeImage(data, img).raised THEN NoUrl
    ELSE ResizeImage(data, img).url

\* the parts of the content list
TextPart(text) == [type |-> "text", text |-> text, url |-> NoUrl]
ImagePart(url) == [type |-> "image_url", text |-> "-", url |-> url]

\* what a finished call gave its caller
NoOutcome == [kind |-> "none", value |-> "-", about |-> <<>>]
Returned(request) == [kind |-> "returned", value |-> "message.content", about |-> request]
Raised(message) == [kind |-> "ModelProcessingError", value |-> message, about |-> <<>>]

CallIdle ==
    /\ api_configured = FALSE
    /\ arg_prompt = "-"
    /\ image_bytes_list = <<>>
    /\ call_pc = "idle"
    /\ image_pos = 0
    /\ valid_image_urls = <<>>
    /\ content = <<>>
    /\ api_requests = <<>>
    /\ call_outcome = NoOutcome

\* no call of task_wrapper_for_url has been made
JobIdle ==
    /\ wrapper_pc = "idle"
    /\ temp_dir = {}
    /\ download_path = 0
    /\ local_file_path = 0
    /\ content_read = 0
    /\ pipeline_calls = 0

\* a progress response: code, the three statuses and pptUrl of its data
\* ("" when absent); has_data is FALSE when data is null
ProgressResponse(code, ppt, image, note, url) ==
    [code |-> code, has_data |-> TRUE, pptStatus |-> ppt, aiImageStatus |-> image,
     cardNoteStatus |-> note, pptUrl |-> url]

NoResponse == ProgressResponse(-1, "-", "-", "-", "")

NoPptOutcome == [kind |-> "none", value |-> "-"]

\* no call of generate_ppt is being followed
PptIdle ==
    /\ ppt_pc = "idle"
    /\ ppt_clock = 0
    /\ ppt_polls = 0
    /\ progress_resp = NoResponse
    /\ ppt_outcome = NoPptOutcome

NoVolcOutcome == [kind |-> "none", value |-> "-", poll |-> 0]

\* no call of run_transcription is being followed
VolcIdle ==
    /\ volc_pc = "idle"
    /\ submit_code = "-"
    /\ query_code = "-"
    /\ x_tt_logid = "-"
    /\ current_sleep_time = 0
    /\ volc_polls = 0
    /\ volc_outcome = NoVolcOutcome

ExtIdle == CallIdle /\ JobIdle /\ PptIdle /\ VolcIdle

----------------------------------------------------------------------------
(* Actions *)

NoReport == [kind |-> "none"]

\* the extractor's failure reported as the unsupported-format error
RaisedAsUnsupported == "fatal"

\* where the run ends when the extractor's exception leaves the function
ExtractorRaised == "extractor_raised"

\* no call of _add_separators_for_non_ascii is being followed
SeparatorIdle ==
    /\ sep_pc = "idle"
    /\ arg_text = <<>>
    /\ arg_limit = SEPARATOR_LIMIT
    /\ char_pos = 0
    /\ non_ascii_counter = 0
    /\ new_parts = <<>>
    /\ separated = <<>>

\* lines 113-146 and 176-194: extension check, extraction (the extractor may
\* raise: there is no try around line 123), the no-image
\* return, mode selection and task planning
Begin ==
    /\ UNCHANGED <<sepVars, taskVars, extVars>>
    /\ pc = "start"
    /\ LET file_ext == FileExt(filename)
       IN  IF file_ext \notin SupportedExts
           THEN /\ pc' = "fatal"
                /\ UNCHANGED <<document_units, use_direct_output_mode, analysis_tasks,
                               fut, per_unit_analysis_results, report>>
           ELSE IF ~readable
           THEN /\ pc' = ExtractorRaised
                /\ UNCHANGED <<document_units, use_direct_output_mode, analysis_tasks,
                               fut, per_unit_analysis_results, report>>
           ELSE /\ document_units' = file_content
                /\ IF NoImages(file_content)
                   THEN /\ report' = NoImagesReport(file_content)
                        /\ pc' = "done"
                        /\ UNCHANGED <<use_direct_output_mode, analysis_tasks, fut,
                                       per_unit_analysis_results>>
                   ELSE LET direct == UseDirectOutputMode(file_ext, file_content)
                            tasks == PlanTasks(file_content, direct)
                        IN  /\ use_direct_output_mode' = direct
                            /\ analysis_tasks' = tasks
                            /\ fut' = [i \in 1..Len(tasks) |-> "created"]
                            /\ per_unit_analysis_results' =
                                   [u \in {file_content[i].unit_identifier :
                                              i \in 1..Len(file_content)} |-> <<>>]
                            /\ pc' = "submit"
                            /\ UNCHANGED report
    /\ UNCHANGED <<filename, file_content, readable, svc, yielded, unit_pos, final_content_parts,
                   call_log>>

\* executor.submit for the next task of the dict comprehension
Submit(i) ==
    /\ UNCHANGED <<sepVars, taskVars, extVars>>
    /\ pc = "submit"
    /\ i \in Tasks
    /\ fut[i] = "created"
    /\ \A j \in 1..(i - 1) : fut[j] # "created"
    /\ fut' = [fut EXCEPT ![i] = "pending"]
    /\ pc' = IF i = Len(analysis_tasks) THEN "collect" ELSE "submit"
    /\ UNCHANGED <<filename, file_content, readable, svc, document_units, use_direct_output_mode,
                   analysis_tasks, yielded, per_unit_analysis_results, unit_pos,
                   final_content_parts, call_log, report>>

\* a pool thread that calls again at once when the call is one that raises
WorkerStartRetrying(i) ==
    /\ UNCHANGED <<sepVars, taskVars, extVars>>
    /\ i \in Tasks
    /\ QueueHead(i)
    /\ WorkerAvailable
    /\ fut' = [fut EXCEPT ![i] = "running"]
    /\ LET call == [prompt |-> analysis_tasks[i].prompt, images |-> analysis_tasks[i].images]
       IN  call_log' = IF ServiceRaises(call.prompt, call.images)
                       THEN call_log \o <<call, call>>
                       ELSE Append(call_log, call)
    /\ UNCHANGED <<filename, file_content, readable, svc, pc, document_units,
                   use_direct_output_mode, analysis_tasks, yielded,
                   per_unit_analysis_results, unit_pos, final_content_parts, report>>

\* a pool thread takes the next work item and calls get_model_response
WorkerStart(i) ==
    /\ UNCHANGED <<sepVars, taskVars, extVars>>
    /\ i \in Tasks
    /\ QueueHead(i)
    /\ WorkerAvailable
    /\ fut' = [fut EXCEPT ![i] = "running"]
    /\ call_log' = Append(call_log, [prompt |-> analysis_tasks[i].prompt,
                                     images |-> analysis_tasks[i].images])
    /\ UNCHANGED <<filename, file_content, readable, svc, pc, document_units,
                   use_direct_output_mode, analysis_tasks, yielded,
                   per_unit_analysis_results, unit_pos, final_content_parts, report>>

\* the call returns or raises: the future is finished
WorkerFinish(i) ==
    /\ UNCHANGED <<sepVars, taskVars, extVars>>
    /\ i \in Tasks
    /\ fut[i] = "running"
    /\ Cardinality(Backlog) < MaxBacklog
    /\ fut' = [fut EXCEPT ![i] = "finished"]
    /\ UNCHANGED <<filename, file_content, readable, svc, pc, document_units,
                   use_direct_output_mode, analysis_tasks, yielded,
                   per_unit_analysis_results, unit_pos, final_content_parts, call_log,
                   report>>

\* one iteration of "for future in as_completed(future_to_info)"
Collect(i) ==
    /\ UNCHANGED <<sepVars, taskVars, extVars>>
    /\ pc = "collect"
    /\ i \in Tasks \ yielded
    /\ fut[i] = "finished"
    /\ yielded' = yielded \cup {i}
    /\ LET t == analysis_tasks[i]
           entry == IF use_direct_output_mode THEN DirectEntry(t) ELSE AggregateEntry(t)
       IN  per_unit_analysis_results' = Record(per_unit_analysis_results, t.info[1], entry)
    /\ UNCHANGED <<filename, file_content, readable, svc, pc, document_units,
                   use_direct_output_mode, analysis_tasks, fut, unit_pos,
                   final_content_parts, call_log, report>>

\* as_completed is exhausted and the with-block ends (shutdown(wait=True))
ExecutorExit ==
    /\ UNCHANGED <<sepVars, taskVars, extVars>>
    /\ pc = "collect"
    /\ AllYielded
    /\ pc' = IF use_direct_output_mode THEN "assemble" ELSE "aggregate"
    /\ unit_pos' = 1
    /\ UNCHANGED <<filename, file_content, readable, svc, document_units, use_direct_output_mode,
                   analysis_tasks, fut, yielded, per_unit_analysis_results,
                   final_content_parts, call_log, report>>

\* lines 163-173: the direct-mode loop over document_units
AssembleDirect ==
    /\ UNCHANGED <<sepVars, taskVars, extVars>>
    /\ pc = "assemble"
    /\ final_content_parts' = DirectParts(document_units, per_unit_analysis_results)
    /\ pc' = "post"
    /\ UNCHANGED <<filename, file_content, readable, svc, document_units, use_direct_output_mode,
                   analysis_tasks, fut, yielded, per_unit_analysis_results, unit_pos,
                   call_log, report>>

\* an assembly loop that starts a merge call and goes on to the next unit
\* without waiting for it
AggregateStepConcurrent ==
    /\ UNCHANGED <<sepVars, taskVars, extVars>>
    /\ pc = "aggregate"
    /\ IF unit_pos > Len(document_units)
       THEN /\ pc' = "post"
            /\ UNCHANGED <<unit_pos, final_content_parts, call_log>>
       ELSE LET unit == document_units[unit_pos]
                analyses == per_unit_analysis_results[unit.unit_identifier]
            IN  /\ call_log' =
                       IF HasImages(unit) /\ ~IsSingle(analyses) /\ NeedsMerge(analyses)
                       THEN Append(call_log, MergeCall(unit.unit_identifier, analyses))
                       ELSE call_log
                /\ final_content_parts' =
                       final_content_parts \o AggregateUnitParts(unit, analyses)
                /\ unit_pos' = unit_pos + 1
                /\ UNCHANGED pc
    /\ UNCHANGED <<filename, file_content, readable, svc, document_units, use_direct_output_mode,
                   analysis_tasks, fut, yielded, per_unit_analysis_results, report>>

\* lines 222-235: one iteration of the aggregate-mode loop, up to its merge call
AggregateStep ==
    /\ UNCHANGED <<sepVars, taskVars, extVars>>
    /\ pc = "aggregate"
    /\ IF unit_pos > Len(document_units)
       THEN /\ pc' = "post"
            /\ UNCHANGED <<unit_pos, final_content_parts, call_log>>
       ELSE LET unit == document_units[unit_pos]
                analyses == per_unit_analysis_results[unit.unit_identifier]
            IN  IF HasImages(unit) /\ ~IsSingle(analyses) /\ NeedsMerge(analyses)
                THEN /\ call_log' = Append(call_log, MergeCall(unit.unit_identifier, analyses))
                     /\ pc' = "merging"
                     /\ UNCHANGED <<unit_pos, final_content_parts>>
                ELSE /\ final_content_parts' =
                            final_content_parts \o AggregateUnitParts(unit, analyses)
                     /\ unit_pos' = unit_pos + 1
                     /\ UNCHANGED <<pc, call_log>>
    /\ UNCHANGED <<filename, file_content, readable, svc, document_units, use_direct_output_mode,
                   analysis_tasks, fut, yielded, per_unit_analysis_results, report>>

\* a merge call whose exception is left to reach the caller
MergeReturnPropagating ==
    /\ UNCHANGED <<sepVars, taskVars, extVars>>
    /\ pc = "merging"
    /\ LET unit == document_units[unit_pos]
           call == MergeCall(unit.unit_identifier,
                             per_unit_analysis_results[unit.unit_identifier])
       IN  IF ServiceRaises(call.prompt, call.images)
           THEN /\ pc' = "fatal"
                /\ UNCHANGED <<final_content_parts, unit_pos>>
           ELSE /\ final_content_parts' =
                       final_content_parts
                           \o AggregateUnitParts(unit,
                                  per_unit_analysis_results[unit.unit_identifier])
                /\ unit_pos' = unit_pos + 1
                /\ pc' = "aggregate"
    /\ UNCHANGED <<filename, file_content, readable, svc, document_units, use_direct_output_mode,
                   analysis_tasks, fut, yielded, per_unit_analysis_results, call_log,
                   report>>

\* lines 235-240: the merge call returns or raises
MergeReturn ==
    /\ UNCHANGED <<sepVars, taskVars, extVars>>
    /\ pc = "merging"
    /\ LET unit == document_units[unit_pos]
       IN  final_content_parts' =
               final_content_parts
                   \o AggregateUnitParts(unit, per_unit_analysis_results[unit.unit_identifier])
    /\ unit_pos' = unit_pos + 1
    /\ pc' = "aggregate"
    /\ UNCHANGED <<filename, file_content, readable, svc, document_units, use_direct_output_mode,
                   analysis_tasks, fut, yielded, per_unit_analysis_results, call_log,
                   report>>

\* lines 246-256 and 280-282: join, separators, length check
PostProcess ==
    /\ UNCHANGED <<sepVars, taskVars, extVars>>
    /\ pc = "post"
    /\ LET ext == FileExt(filename)
       IN  IF OverBudget(ext, final_content_parts)
           THEN /\ call_log' = Append(call_log, SummaryCall(ext, final_content_parts))
                /\ pc' = "summarizing"
                /\ UNCHANGED report
           ELSE /\ report' = FinalReport(ext, final_content_parts)
                /\ pc' = "done"
                /\ UNCHANGED call_log
    /\ UNCHANGED <<filename, file_content, readable, svc, document_units, use_direct_output_mode,
                   analysis_tasks, fut, yielded, per_unit_analysis_results, unit_pos,
                   final_content_parts>>

\* lines 268-278: the summarization call returns or raises
SummarizeReturn ==
    /\ UNCHANGED <<sepVars, taskVars, extVars>>
    /\ pc = "summarizing"
    /\ report' = FinalReport(FileExt(filename), final_content_parts)
    /\ pc' = "done"
    /\ UNCHANGED <<filename, file_content, readable, svc, document_units, use_direct_output_mode,
                   analysis_tasks, fut, yielded, per_unit_analysis_results, unit_pos,
                   final_content_parts, call_log>>

----------------------------------------------------------------------------
(* Inputs *)

TextA == <<"a", " ", "a">>
TextN == <<"U", "a">>        \* "U" is a non-ASCII character
NoText == <<>>

\* a slide deck, direct mode: a two-batch unit, a bare unit, a one-batch unit
DeckUnits == <<Unit(1, TextA, 9), Unit(2, NoText, 0), Unit(3, TextN, 1), Unit(4, TextA, 0)>>

\* a flat document: the one unit the docx extractor yields, three batches
FlatUnits == <<Unit(1, TextA, 17)>>

\* a workbook (every sheet has text or images): seven batches
BookUnits ==
    <<Unit(1, NoText, 3), Unit(2, TextN, 0), Unit(3, TextA, 10), Unit(4, TextA, 1),
      Unit(5, NoText, 1), Unit(6, TextA, 1), Unit(7, TextN, 1)>>

\* a paged document with eleven image-bearing pages, aggregate mode
PagedUnits ==
    <<Unit(1, TextA, 9), Unit(2, TextN, 0), Unit(3, NoText, 1)>>
        \o [i \in 1..9 |-> Unit(3 + i, TextA, 1)]

\* a flat document with one image: its report is 30 characters and the
\* answer, and three separators (18 characters) once the answer has 6000
MemoUnits == <<Unit(1, TextA, 1)>>

\* answers that bring the report of MemoUnits to the budget less one, to the
\* budget, past it by one, and far past it
MemoReplies ==
    {LENGTH_BUDGET - 49, LENGTH_BUDGET - 48, LENGTH_BUDGET - 47, LENGTH_BUDGET + 1000}

\* a page of text without images: non-ASCII characters, more than the
\* separator limit of them in a row
ScanUnits == <<Unit(1, [i \in 1..(SEPARATOR_LIMIT + 500) |-> "U"], 0)>>

\* documents without images
TextOnlyUnits == <<Unit(1, TextA, 0), Unit(2, NoText, 0), Unit(3, TextN, 0)>>

Service(bad_images, bad_merges, bad_summary) ==
    [bad_images |-> bad_images, bad_merges |-> bad_merges, bad_summary |-> bad_summary,
     reply_chars |-> CharsPerImage, summary_chars |-> SummaryChars]

\* a service that never fails an analysis and answers at the given lengths
Wordy(reply_chars, summary_chars, bad_summary) ==
    [bad_images |-> {}, bad_merges |-> {}, bad_summary |-> bad_summary,
     reply_chars |-> reply_chars, summary_chars |-> summary_chars]

\* every service that fails on some of the images in fragile
Services(fragile) ==
    [bad_images : SUBSET fragile, bad_merges : {{}}, bad_summary : BOOLEAN,
     reply_chars : {CharsPerImage}, summary_chars : {SummaryChars}]

Reliable == {Service({}, {}, FALSE)}

Scenario(name, units, services) ==
    [filename |-> name, units |-> units, services |-> services]

Scenarios ==
    { Scenario(<<"deck", "Pptx">>, DeckUnits, Services({Blob(1, 1), Blob(1, 9), Blob(3, 1)})),
      Scenario(<<"paper", "docx">>, FlatUnits, Services({Blob(1, 1), Blob(1, 9), Blob(1, 17)})),
      Scenario(<<"book", "XLSX">>, BookUnits, Services({Blob(3, 1), Blob(3, 9), Blob(4, 1)})),
      Scenario(<<"report", "v2", "PDF">>, PagedUnits,
               { Service({}, {}, FALSE),
                 Service({Blob(1, 9)}, {1}, FALSE),
                 Service({Blob(1, 1), Blob(3, 1)}, {}, FALSE),
                 Service({Blob(4, 1)}, {1}, TRUE) }),
      Scenario(<<"memo", "docx">>, MemoUnits,
               {Wordy(r, c, b) : r \in MemoReplies,
                                 c \in {SummaryChars, LENGTH_BUDGET + 1000}, b \in BOOLEAN}),
      Scenario(<<"scan", "pdf">>, ScanUnits, Reliable),
      Scenario(<<"empty", "pptx">>, <<>>, Reliable),
      Scenario(<<"notes", "TXT">>, TextOnlyUnits, Reliable),
      Scenario(<<"README">>, DeckUnits, Reliable) }

\* every paged document of at most MaxTextUnits pages without images
TextOnlyScenarios ==
    { Scenario(<<"notes", "pdf">>, [i \in 1..Len(texts) |-> Unit(i, texts[i], 0)], Reliable) :
        texts \in UNION {[1..m -> {TextA, NoText, TextN}] : m \in 1..MaxTextUnits} }

Init ==
    /\ \E d \in Scenarios \cup TextOnlyScenarios :
          /\ filename = d.filename
          /\ file_content = d.units
          /\ svc \in d.services
    /\ readable \in BOOLEAN
    /\ pc = "start"
    /\ document_units = <<>>
    /\ use_direct_output_mode = TRUE
    /\ analysis_tasks = <<>>
    /\ fut = <<>>
    /\ yielded = {}
    /\ per_unit_analysis_results = <<>>
    /\ unit_pos = 1
    /\ final_content_parts = <<>>
    /\ call_log = <<>>
    /\ report = NoReport
    /\ SeparatorIdle
    /\ ExtIdle
    /\ TasksIdle

Next ==
    \/ Begin
    \/ \E i \in Tasks : Submit(i)
    \/ \E i \in Tasks : WorkerStart(i)
    \/ \E i \in Tasks : WorkerFinish(i)
    \/ \E i \in Tasks : Collect(i)
    \/ ExecutorExit
    \/ AssembleDirect
    \/ AggregateStep
    \/ MergeReturn
    \/ PostProcess
    \/ SummarizeReturn

Spec == Init /\ [][Next]_vars

----------------------------------------------------------------------------
(* The planner alone, over many documents: mode selection and batching.    *)

\* a document of n units: the first has k images, the next m have one image
\* each, the others none; every second unit has text, from unit 1 or unit 2
PlanUnits(n, k, m, t) ==
    [i \in 1..n |->
        Unit(i, IF (i + t) % 2 = 0 THEN TextA ELSE NoText,
             IF i = 1 THEN k ELSE IF i <= m + 1 THEN 1 ELSE 0)]

\* what the extractor of the format can yield: docx yields one unit, xlsx
\* only sheets that have text or images
Extractable(ext, units) ==
    /\ ext = "docx" => Len(units) = 1
    /\ ext = "xlsx" => \A i \in 1..Len(units) : HasText(units[i]) \/ HasImages(units[i])

PlanScenarios ==
    { sc \in { Scenario(<<"d", ext>>, PlanUnits(n, k, m, t), Reliable) :
                 ext \in SupportedExts, n \in 0..MaxPlanUnits, k \in 0..MaxPlanImages,
                 m \in 0..MaxPlanUnits, t \in 0..1 } :
        Extractable(sc.filename[2], sc.units) }

InitPlan ==
    /\ \E d \in PlanScenarios :
          /\ filename = d.filename
          /\ file_content = d.units
          /\ svc \in d.services
    /\ readable = TRUE
    /\ pc = "start"
    /\ document_units = <<>>
    /\ use_direct_output_mode = TRUE
    /\ analysis_tasks = <<>>
    /\ fut = <<>>
    /\ yielded = {}
    /\ per_unit_analysis_results = <<>>
    /\ unit_pos = 1
    /\ final_content_parts = <<>>
    /\ call_log = <<>>
    /\ report = NoReport
    /\ SeparatorIdle
    /\ ExtIdle
    /\ TasksIdle

NextPlan == Begin

SpecPlan == InitPlan /\ [][NextPlan]_vars

----------------------------------------------------------------------------
(* _add_separators_for_non_ascii, character by character (lines 24-39).    *)
(* new_parts is the list the loop appends to, kept as runs; an item of     *)
(* class "S" is one appended separator string.                             *)

MaxSepChars == 6
SmallLimits == {2, 3}

TextLen(runs) == RunsLen(runs)

\* the class of the p-th character of runs, 1 <= p <= TextLen(runs)
ClassAt(runs, p) ==
    LET before(i) == SumRange([j \in 1..Len(runs) |-> runs[j].n], 1, i - 1)
    IN  runs[CHOOSE i \in 1..Len(runs) : before(i) < p /\ p <= before(i) + runs[i].n].c

\* ord(char) >= 128
IsNonAscii(c) == c = "N"

\* the counter has gone past the limit
LimitExceeded(counter, lim) == counter > lim

\* non_ascii_counter >= limit
LimitReached(counter, lim) == counter >= lim

\* new_parts.append(char), adjacent characters of one class kept as one run
AppendChar(parts, c) ==
    IF parts # <<>> /\ parts[Len(parts)].c = c
    THEN [parts EXCEPT ![Len(parts)].n = @ + 1]
    ELSE parts \o Run(c, 1)

\* new_parts.append("\n----\n")
AppendSeparator(parts) == parts \o Run("S", 1)

\* "".join(new_parts)
JoinParts(parts) ==
    Flatten([i \in 1..Len(parts) |->
                IF parts[i].c = "S" THEN SeparatorRuns ELSE <<parts[i]>>])

\* one iteration of "for char in text"
SeparatorStep ==
    /\ sep_pc = "loop"
    /\ char_pos < TextLen(arg_text)
    /\ LET char == ClassAt(arg_text, char_pos + 1)
           appended == AppendChar(new_parts, char)
       IN  IF IsNonAscii(char)
           THEN IF LimitReached(non_ascii_counter + 1, arg_limit)
                THEN /\ new_parts' = AppendSeparator(appended)
                     /\ non_ascii_counter' = 0
                ELSE /\ new_parts' = appended
                     /\ non_ascii_counter' = non_ascii_counter + 1
           ELSE /\ new_parts' = appended
                /\ non_ascii_counter' = 0
    /\ char_pos' = char_pos + 1
    /\ UNCHANGED <<sep_pc, arg_text, arg_limit, separated>>
    /\ UNCHANGED <<pipelineVars, taskVars, extVars>>

\* return "".join(new_parts)
SeparatorReturn ==
    /\ sep_pc = "loop"
    /\ char_pos = TextLen(arg_text)
    /\ separated' = JoinParts(new_parts)
    /\ sep_pc' = "returned"
    /\ UNCHANGED <<arg_text, arg_limit, char_pos, non_ascii_counter, new_parts>>
    /\ UNCHANGED <<pipelineVars, taskVars, extVars>>

\* every text of at most MaxSepChars characters, one run per character
ShortTexts ==
    UNION {[1..m -> {[c |-> "N", n |-> 1], [c |-> "A", n |-> 1]}] : m \in 0..MaxSepChars}

\* long texts around the default limit
LongTexts ==
    { Run("N", 5000), Run("N", 4000), Run("N", 2000), Run("N", 1999),
      Run("N", 1999) \o Run("A", 1) \o Run("N", 1999),
      Run("N", 1999) \o Run("W", 1) \o Run("N", 2001),
      Run("A", 2500),
      Run("A", 3) \o Run("N", 2000) \o Run("A", 3) }

SeparatorInputs ==
    [text : ShortTexts, limit : SmallLimits] \cup [text : LongTexts, limit : {SEPARATOR_LIMIT}]

InitSep ==
    /\ filename = <<"empty", "pptx">>
    /\ file_content = <<>>
    /\ readable = TRUE
    /\ svc = Service({}, {}, FALSE)
    /\ pc = "start"
    /\ document_units = <<>>
    /\ use_direct_output_mode = TRUE
    /\ analysis_tasks = <<>>
    /\ fut = <<>>
    /\ yielded = {}
    /\ per_unit_analysis_results = <<>>
    /\ unit_pos = 1
    /\ final_content_parts = <<>>
    /\ call_log = <<>>
    /\ report = NoReport
    /\ \E in \in SeparatorInputs :
          /\ arg_text = in.text
          /\ arg_limit = in.limit
    /\ sep_pc = "loop"
    /\ char_pos = 0
    /\ non_ascii_counter = 0
    /\ new_parts = <<>>
    /\ separated = <<>>
    /\ TasksIdle
    /\ ExtIdle

NextSep == SeparatorStep \/ SeparatorReturn

SpecSep == InitSep /\ [][NextSep]_vars

----------------------------------------------------------------------------
(* The task manager alone: jobs, status polls and cleanup timers.          *)

InitTasks ==
    /\ filename = <<"empty", "pptx">>
    /\ file_content = <<>>
    /\ readable = TRUE
    /\ svc = Service({}, {}, FALSE)
    /\ pc = "start"
    /\ document_units = <<>>
    /\ use_direct_output_mode = TRUE
    /\ analysis_tasks = <<>>
    /\ fut = <<>>
    /\ yielded = {}
    /\ per_unit_analysis_results = <<>>
    /\ unit_pos = 1
    /\ final_content_parts = <<>>
    /\ call_log = <<>>
    /\ report = NoReport
    /\ SeparatorIdle
    /\ ExtIdle
    /\ settings \in [TASK_MAX_RETRIES : 1..MaxRetries]
    /\ task_storage = {}
    /\ task_dict = [t \in TaskIds |-> NoTask]
    /\ task_lock = 0
    /\ runner = [t \in TaskIds |-> NoRunner]
    /\ poll = [p \in Pollers |-> NoPoll]
    /\ timers = [t \in TaskIds |-> 0]

NextTasks ==
    \/ \E t \in TaskIds, via \in {"run_task_in_background", "task_wrapper"} : CreateTask(t, via)
    \/ \E t \in TaskIds : RunStart(t)
    \/ \E t \in TaskIds : CallTarget(t)
    \/ \E t \in TaskIds : TargetReturns(t)
    \/ \E t \in TaskIds : TargetRaises(t)
    \/ \E t \in TaskIds : SetCompleted(t)
    \/ \E t \in TaskIds : SetResult(t)
    \/ \E t \in TaskIds : RetryAfterSleep(t)
    \/ \E t \in TaskIds : SetFailed(t)
    \/ \E t \in TaskIds : SetError(t)
    \/ \E p \in Pollers, t \in TaskIds : PollGetTask(p, t)
    \/ \E p \in Pollers : PollReadStatus(p)
    \/ \E p \in Pollers : PollReadResult(p)
    \/ \E p \in Pollers : PollRespond(p)
    \/ \E t \in TaskIds : TimerFires(t)

SpecTasks == InitTasks /\ [][NextTasks]_vars

----------------------------------------------------------------------------
(* One call of get_model_response, image by image.                         *)

\* lines 96-106: the configuration check, then the content list with the prompt
CallStart ==
    /\ call_pc = "start"
    /\ IF ~api_configured
       THEN /\ call_outcome' = Raised("not configured")
            /\ call_pc' = "raised"
            /\ UNCHANGED <<content, valid_image_urls>>
       ELSE /\ content' = <<TextPart(arg_prompt)>>
            /\ valid_image_urls' = <<>>
            /\ call_pc' = "encoding"
            /\ UNCHANGED call_outcome
    /\ UNCHANGED <<api_configured, arg_prompt, image_bytes_list, image_pos, api_requests>>
    /\ UNCHANGED <<pipelineVars, sepVars, taskVars, jobVars, pptVars, volcVars>>

\* lines 108-112: one iteration of "for img_bytes in image_bytes_list"
EncodeNext ==
    /\ call_pc = "encoding"
    /\ image_pos < Len(image_bytes_list)
    /\ LET base64_image_url ==
               EncodeImageBytes(image_pos + 1, image_bytes_list[image_pos + 1])
       IN  valid_image_urls' = IF base64_image_url # NoUrl
                               THEN Append(valid_image_urls, base64_image_url)
                               ELSE valid_image_urls
    /\ image_pos' = image_pos + 1
    /\ UNCHANGED <<api_configured, arg_prompt, image_bytes_list, call_pc, content,
                   api_requests, call_outcome>>
    /\ UNCHANGED <<pipelineVars, sepVars, taskVars, jobVars, pptVars, volcVars>>

\* lines 114-125: the image parts after the prompt; only a warning when no
\* image is left
BuildContent ==
    /\ call_pc = "encoding"
    /\ image_pos = Len(image_bytes_list)
    /\ content' = content \o [i \in 1..Len(valid_image_urls) |-> ImagePart(valid_image_urls[i])]
    /\ call_pc' = "calling"
    /\ UNCHANGED <<api_configured, arg_prompt, image_bytes_list, image_pos, valid_image_urls,
                   api_requests, call_outcome>>
    /\ UNCHANGED <<pipelineVars, sepVars, taskVars, jobVars, pptVars, volcVars>>

\* lines 127-134: the request is made and answered
ApiReturns ==
    /\ call_pc = "calling"
    /\ api_requests' = Append(api_requests, content)
    /\ call_outcome' = Returned(content)
    /\ call_pc' = "returned"
    /\ UNCHANGED <<api_configured, arg_prompt, image_bytes_list, image_pos, valid_image_urls,
                   content>>
    /\ UNCHANGED <<pipelineVars, sepVars, taskVars, jobVars, pptVars, volcVars>>

\* lines 128, 138-140: the request is made and the client raises
ApiRaises ==
    /\ call_pc = "calling"
    /\ api_requests' = Append(api_requests, content)
    /\ call_outcome' = Raised("api error")
    /\ call_pc' = "raised"
    /\ UNCHANGED <<api_configured, arg_prompt, image_bytes_list, image_pos, valid_image_urls,
                   content>>
    /\ UNCHANGED <<pipelineVars, sepVars, taskVars, jobVars, pptVars, volcVars>>

\* the images PIL may be given
ImageKinds ==
    { Image(FALSE, "PNG", 0, 0, FALSE),
      Image(TRUE, "PNG", 13, 13, TRUE),
      Image(TRUE, "PNG", 13, 100, TRUE),
      Image(TRUE, "JPEG", 100, 13, TRUE),
      Image(TRUE, "PNG", 14, 14, FALSE),
      Image(TRUE, "JPEG", 1024, 1024, FALSE),
      Image(TRUE, "JPEG", 1025, 100, TRUE),
      Image(TRUE, "PNG", 100, 2000, FALSE) }

ImageLists == UNION {[1..n -> ImageKinds] : n \in 0..MaxBatchImages}

\* process_document_images is not running
PipelineUnused ==
    /\ filename = <<"empty", "pptx">>
    /\ file_content = <<>>
    /\ readable = TRUE
    /\ svc = Service({}, {}, FALSE)
    /\ pc = "start"
    /\ document_units = <<>>
    /\ use_direct_output_mode = TRUE
    /\ analysis_tasks = <<>>
    /\ fut = <<>>
    /\ yielded = {}
    /\ per_unit_analysis_results = <<>>
    /\ unit_pos = 1
    /\ final_content_parts = <<>>
    /\ call_log = <<>>
    /\ report = NoReport

InitCall ==
    /\ PipelineUnused
    /\ SeparatorIdle
    /\ TasksIdle
    /\ JobIdle
    /\ PptIdle
    /\ VolcIdle
    /\ api_configured \in BOOLEAN
    /\ arg_prompt = "prompt"
    /\ image_bytes_list \in ImageLists
    /\ call_pc = "start"
    /\ image_pos = 0
    /\ valid_image_urls = <<>>
    /\ content = <<>>
    /\ api_requests = <<>>
    /\ call_outcome = NoOutcome

NextCall == CallStart \/ EncodeNext \/ BuildContent \/ ApiReturns \/ ApiRaises

SpecCall == InitCall /\ [][NextCall]_vars

----------------------------------------------------------------------------
(* analyze_document_images in polling mode: run_task_in_background calls   *)
(* task_wrapper_for_url (router.py 313-330), which downloads the file      *)
(* (download_util.download_file), reads it, runs process_document_images   *)
(* on it and removes the file in its finally clause.  The file of a call   *)
(* is named by the number of the call (the source uses a fresh uuid4).     *)

\* router.py 314-318: the wrapper is entered and calls download_file, which
\* chooses local_filepath (download_util.py 47-59)
WrapperEnter(t) ==
    /\ runner[t].via = "run_task_in_background"
    /\ runner[t].rpc = "calling"
    /\ wrapper_pc = "idle"
    /\ local_file_path' = 0
    /\ download_path' = runner[t].calls
    /\ content_read' = 0
    /\ wrapper_pc' = "download"
    /\ UNCHANGED <<temp_dir, pipeline_calls>>
    /\ UNCHANGED <<pipelineVars, sepVars, taskVars, callVars, pptVars, volcVars>>

\* download_util.py 64-65, 73-78: the request or raise_for_status raises, or
\* the file cannot be opened: DownloadError, and no file was made
DownloadFailsEarly ==
    /\ wrapper_pc = "download"
    /\ wrapper_pc' = "finally_raise"
    /\ UNCHANGED <<temp_dir, download_path, local_file_path, content_read, pipeline_calls>>
    /\ UNCHANGED <<pipelineVars, sepVars, taskVars, callVars, pptVars, volcVars>>

\* download_util.py 66: open(local_filepath, 'wb') creates the file
DownloadOpensFile ==
    /\ wrapper_pc = "download"
    /\ temp_dir' = temp_dir \cup {download_path}
    /\ wrapper_pc' = "streaming"
    /\ UNCHANGED <<download_path, local_file_path, content_read, pipeline_calls>>
    /\ UNCHANGED <<pipelineVars, sepVars, taskVars, callVars, pptVars, volcVars>>

\* download_util.py 67-68, 73-78: iter_content raises while the chunks are
\* written; the with statements close the file and the response, and
\* DownloadError is raised
DownloadFailsMidway ==
    /\ wrapper_pc = "streaming"
    /\ wrapper_pc' = "finally_raise"
    /\ UNCHANGED <<temp_dir, download_path, local_file_path, content_read, pipeline_calls>>
    /\ UNCHANGED <<pipelineVars, sepVars, taskVars, callVars, pptVars, volcVars>>

\* download_util.py 71 and router.py 318: download_file returns its path,
\* which the wrapper binds to local_file_path
DownloadReturns ==
    /\ wrapper_pc = "streaming"
    /\ local_file_path' = download_path
    /\ wrapper_pc' = "downloaded"
    /\ UNCHANGED <<temp_dir, download_path, content_read, pipeline_calls>>
    /\ UNCHANGED <<pipelineVars, sepVars, taskVars, callVars, pptVars, volcVars>>

\* router.py 320-321: open(local_file_path, 'rb') and read; a missing file
\* raises
WrapperReadsFile ==
    /\ wrapper_pc = "downloaded"
    /\ IF local_file_path \in temp_dir
       THEN /\ content_read' = local_file_path
            /\ wrapper_pc' = "read"
       ELSE /\ wrapper_pc' = "finally_raise"
            /\ UNCHANGED content_read
    /\ UNCHANGED <<temp_dir, download_path, local_file_path, pipeline_calls>>
    /\ UNCHANGED <<pipelineVars, sepVars, taskVars, callVars, pptVars, volcVars>>

\* router.py 323: target_func(content, filename) starts, on fresh locals
WrapperCallsPipeline ==
    /\ wrapper_pc = "read"
    /\ pc' = "start"
    /\ document_units' = <<>>
    /\ use_direct_output_mode' = TRUE
    /\ analysis_tasks' = <<>>
    /\ fut' = <<>>
    /\ yielded' = {}
    /\ per_unit_analysis_results' = <<>>
    /\ unit_pos' = 1
    /\ final_content_parts' = <<>>
    /\ call_log' = <<>>
    /\ report' = NoReport
    /\ pipeline_calls' = pipeline_calls + 1
    /\ wrapper_pc' = "pipeline"
    /\ UNCHANGED <<filename, file_content, readable, svc>>
    /\ UNCHANGED <<temp_dir, download_path, local_file_path, content_read>>
    /\ UNCHANGED <<sepVars, taskVars, callVars, pptVars, volcVars>>

\* router.py 323-325: target_func returned the report
WrapperPipelineReturns ==
    /\ wrapper_pc = "pipeline"
    /\ pc = "done"
    /\ wrapper_pc' = "finally_return"
    /\ UNCHANGED <<temp_dir, download_path, local_file_path, content_read, pipeline_calls>>
    /\ UNCHANGED <<pipelineVars, sepVars, taskVars, callVars, pptVars, volcVars>>

\* router.py 326-328: target_func raised (DocumentParsingError for an
\* unsupported extension, or the extractor's exception); logged and raised again
WrapperPipelineRaises ==
    /\ wrapper_pc = "pipeline"
    /\ pc \in {"fatal", ExtractorRaised}
    /\ wrapper_pc' = "finally_raise"
    /\ UNCHANGED <<temp_dir, download_path, local_file_path, content_read, pipeline_calls>>
    /\ UNCHANGED <<pipelineVars, sepVars, taskVars, callVars, pptVars, volcVars>>

\* download_util.py 80-87: cleanup_temp_file removes the file if it exists
CleanupTempFile(files, filepath) == files \ {filepath}

\* router.py 329-331: if local_file_path: cleanup_temp_file(local_file_path)
Finally ==
    IF local_file_path # 0 THEN CleanupTempFile(temp_dir, local_file_path) ELSE temp_dir

\* the finally clause runs and the wrapper returns or raises into line 75 of
\* run_task_in_background
WrapperLeaves(t) ==
    /\ runner[t].rpc = "calling"
    /\ wrapper_pc \in {"finally_return", "finally_raise"}
    /\ temp_dir' = Finally
    /\ runner' = [runner EXCEPT
                     ![t].rpc = IF wrapper_pc = "finally_return" THEN "returned" ELSE "raised",
                     ![t].local = IF wrapper_pc = "finally_return"
                                  THEN ReturnValue(runner[t].attempt)
                                  ELSE ErrorMessage(runner[t].attempt)]
    /\ wrapper_pc' = "idle"
    /\ UNCHANGED <<download_path, local_file_path, content_read, pipeline_calls>>
    /\ UNCHANGED <<settings, task_storage, task_dict, task_lock, poll, timers>>
    /\ UNCHANGED <<pipelineVars, sepVars, callVars, pptVars, volcVars>>

\* the documents behind the URL: one whose report is truncated, one with a
\* failed batch, one without failures, one whose merge call fails, one of
\* an unsupported format
JobDocuments ==
    { Scenario(<<"memo", "docx">>, MemoUnits,
               { Wordy(LENGTH_BUDGET + 1000, SummaryChars, TRUE),
                 Service({Blob(1, 1)}, {}, FALSE),
                 Service({}, {}, FALSE) }),
      Scenario(<<"report", "v2", "PDF">>, PagedUnits, {Service({Blob(4, 1)}, {1}, FALSE)}),
      Scenario(<<"notes", "TXT">>, TextOnlyUnits, Reliable) }

InitJob ==
    /\ \E d \in JobDocuments :
          /\ filename = d.filename
          /\ file_content = d.units
          /\ svc \in d.services
    /\ readable \in BOOLEAN
    /\ pc = "not called"
    /\ document_units = <<>>
    /\ use_direct_output_mode = TRUE
    /\ analysis_tasks = <<>>
    /\ fut = <<>>
    /\ yielded = {}
    /\ per_unit_analysis_results = <<>>
    /\ unit_pos = 1
    /\ final_content_parts = <<>>
    /\ call_log = <<>>
    /\ report = NoReport
    /\ SeparatorIdle
    /\ CallIdle
    /\ JobIdle
    /\ PptIdle
    /\ VolcIdle
    /\ settings \in [TASK_MAX_RETRIES : 1..MaxRetries]
    /\ task_storage = {}
    /\ task_dict = [t \in TaskIds |-> NoTask]
    /\ task_lock = 0
    /\ runner = [t \in TaskIds |-> NoRunner]
    /\ poll = [p \in Pollers |-> NoPoll]
    /\ timers = [t \in TaskIds |-> 0]

\* one request in polling mode: the job of task 1
NextJob ==
    \/ CreateTask(1, "run_task_in_background")
    \/ RunStart(1)
    \/ CallTarget(1)
    \/ WrapperEnter(1)
    \/ DownloadFailsEarly
    \/ DownloadOpensFile
    \/ DownloadFailsMidway
    \/ DownloadReturns
    \/ WrapperReadsFile
    \/ WrapperCallsPipeline
    \/ Begin
    \/ \E i \in Tasks : Submit(i)
    \/ \E i \in Tasks : WorkerStart(i)
    \/ \E i \in Tasks : WorkerFinish(i)
    \/ \E i \in Tasks : Collect(i)
    \/ ExecutorExit
    \/ AssembleDirect
    \/ AggregateStep
    \/ MergeReturn
    \/ PostProcess
    \/ SummarizeReturn
    \/ WrapperPipelineReturns
    \/ WrapperPipelineRaises
    \/ WrapperLeaves(1)
    \/ SetCompleted(1)
    \/ SetResult(1)
    \/ RetryAfterSleep(1)
    \/ SetFailed(1)
    \/ SetError(1)

SpecJob == InitJob /\ [][NextJob]_vars

----------------------------------------------------------------------------
(* aippt_client.generate_ppt (lines 92-138): create the task, then poll    *)
(* its progress within a window of 600 seconds.  ppt_clock is the time     *)
(* since start_time; a call of _poll_progress takes one of PollTimes       *)
(* seconds (its request has timeout=10).                                   *)

POLL_WINDOW == 600
POLL_SLEEP == 5
POLL_TIMEOUT == 10

PollTimes == {0, POLL_TIMEOUT}

PptReturned(url) == [kind |-> "returned", value |-> url]
AipptProcessingError(message) == [kind |-> "AipptProcessingError", value |-> message]

\* line 137: f"处理任务时发生未知错误: {e}"
UnknownError(e) == AipptProcessingError("unknown error: " \o e)

\* line 105: time.time() - start_time < 600
WithinWindow(clock) == clock < POLL_WINDOW

\* the test of a loop that looks at the deck alone
DeckDone(resp) == resp.pptStatus = "done"

\* line 118: the three statuses are 'done'
AllDone(resp) ==
    resp.pptStatus = "done" /\ resp.aiImageStatus = "done" /\ resp.cardNoteStatus = "done"

\* line 126: one of the three statuses is 'build_failed'
AnyBuildFailed(resp) ==
    \/ resp.pptStatus = "build_failed"
    \/ resp.aiImageStatus = "build_failed"
    \/ resp.cardNoteStatus = "build_failed"

\* lines 108-129 on one response: what the iteration does with it
Evaluate(resp) ==
    IF resp.code # 0 THEN UnknownError("progress query failed")
    ELSE IF ~resp.has_data THEN UnknownError("'NoneType' object has no attribute 'get'")
    ELSE IF AllDone(resp)
    THEN IF resp.pptUrl # "" THEN PptReturned(resp.pptUrl)
         ELSE UnknownError("done without pptUrl")
    ELSE IF AnyBuildFailed(resp) THEN UnknownError("a subtask failed")
    ELSE NoPptOutcome

\* lines 96-100: the configuration is missing or _create_task raises
PptCreateFails ==
    /\ ppt_pc = "start"
    /\ ppt_outcome' = AipptProcessingError("not created")
    /\ ppt_pc' = "raised"
    /\ UNCHANGED <<ppt_clock, ppt_polls, progress_resp>>
    /\ UNCHANGED <<pipelineVars, sepVars, taskVars, callVars, jobVars, volcVars>>

\* lines 100-104: _create_task returns the sid; start_time = time.time()
PptCreated ==
    /\ ppt_pc = "start"
    /\ ppt_clock' = 0
    /\ ppt_pc' = "head"
    /\ UNCHANGED <<ppt_polls, progress_resp, ppt_outcome>>
    /\ UNCHANGED <<pipelineVars, sepVars, taskVars, callVars, jobVars, volcVars>>

\* line 105 true, line 107: the loop is entered and _poll_progress called
PptPoll ==
    /\ ppt_pc = "head"
    /\ WithinWindow(ppt_clock)
    /\ ppt_polls' = ppt_polls + 1
    /\ ppt_pc' = "polling"
    /\ UNCHANGED <<ppt_clock, progress_resp, ppt_outcome>>
    /\ UNCHANGED <<pipelineVars, sepVars, taskVars, callVars, jobVars, volcVars>>

\* line 105 false, line 138: the window is over
PptTimeout ==
    /\ ppt_pc = "head"
    /\ ~WithinWindow(ppt_clock)
    /\ ppt_outcome' = AipptProcessingError("timeout")
    /\ ppt_pc' = "raised"
    /\ UNCHANGED <<ppt_clock, ppt_polls, progress_resp>>
    /\ UNCHANGED <<pipelineVars, sepVars, taskVars, callVars, jobVars, volcVars>>

\* lines 87-89: the request is answered after took seconds
PptResponds(resp, took) ==
    /\ ppt_pc = "polling"
    /\ progress_resp' = resp
    /\ ppt_clock' = ppt_clock + took
    /\ ppt_pc' = "responded"
    /\ UNCHANGED <<ppt_polls, ppt_outcome>>
    /\ UNCHANGED <<pipelineVars, sepVars, taskVars, callVars, jobVars, volcVars>>

\* lines 87-88, 131-133: requests raises after took seconds; the error is
\* logged, the loop sleeps and goes on
PptNetworkError(took) ==
    /\ ppt_pc = "polling"
    /\ ppt_clock' = ppt_clock + took + POLL_SLEEP
    /\ ppt_pc' = "head"
    /\ UNCHANGED <<ppt_polls, progress_resp, ppt_outcome>>
    /\ UNCHANGED <<pipelineVars, sepVars, taskVars, callVars, jobVars, volcVars>>

\* lines 108-129, 134-137: return, raise, or sleep and go on
PptEvaluate ==
    /\ ppt_pc = "responded"
    /\ LET out == Evaluate(progress_resp)
       IN  IF out = NoPptOutcome
           THEN /\ ppt_clock' = ppt_clock + POLL_SLEEP
                /\ ppt_pc' = "head"
                /\ UNCHANGED ppt_outcome
           ELSE /\ ppt_outcome' = out
                /\ ppt_pc' = IF out.kind = "returned" THEN "returned" ELSE "raised"
                /\ UNCHANGED ppt_clock
    /\ UNCHANGED <<ppt_polls, progress_resp>>
    /\ UNCHANGED <<pipelineVars, sepVars, taskVars, callVars, jobVars, volcVars>>

\* the answers of the progress endpoint
ProgressResponses ==
    { ProgressResponse(0, "building", "building", "building", ""),
      ProgressResponse(0, "done", "building", "done", "https://ppt"),
      ProgressResponse(0, "done", "done", "done", "https://ppt"),
      ProgressResponse(0, "done", "done", "done", ""),
      ProgressResponse(0, "build_failed", "building", "building", ""),
      ProgressResponse(0, "building", "build_failed", "done", ""),
      ProgressResponse(0, "done", "done", "build_failed", "https://ppt"),
      ProgressResponse(1, "done", "done", "done", "https://ppt"),
      ProgressResponse(1, "building", "building", "building", ""),
      [ProgressResponse(0, "building", "building", "building", "") EXCEPT !.has_data = FALSE] }

InitPpt ==
    /\ PipelineUnused
    /\ SeparatorIdle
    /\ TasksIdle
    /\ CallIdle
    /\ JobIdle
    /\ VolcIdle
    /\ ppt_pc = "start"
    /\ ppt_clock = 0
    /\ ppt_polls = 0
    /\ progress_resp = NoResponse
    /\ ppt_outcome = NoPptOutcome

NextPpt ==
    \/ PptCreateFails
    \/ PptCreated
    \/ PptPoll
    \/ PptTimeout
    \/ \E resp \in ProgressResponses, took \in PollTimes : PptResponds(resp, took)
    \/ \E took \in PollTimes : PptNetworkError(took)
    \/ PptEvaluate

SpecPpt == InitPpt /\ [][NextPpt]_vars

----------------------------------------------------------------------------
(* volc_client.run_transcription (lines 16-99): submit the task, then poll *)
(* for its result.  The status codes are the strings of the response       *)
(* header X-Api-Status-Code; current_sleep_time is kept in sixty-fourths   *)
(* of a second, which makes the factor 1.5 exact up to the maximum.        *)

QUERY_INITIAL_SLEEP == 3
QUERY_MAX_SLEEP == 30
MaxVolcPolls == 8

\* seconds as sixty-fourths
Seconds(n) == 64 * n

\* current_sleep_time * settings.QUERY_FACTOR, the factor being 1.5
TimesQueryFactor(x) == (3 * x) \div 2

\* line 97: min(current_sleep_time * QUERY_FACTOR, QUERY_MAX_SLEEP)
NextSleepTime(x) == Min(TimesQueryFactor(x), Seconds(QUERY_MAX_SLEEP))

\* lines 64, 90: the code of success
Succeeded(code) == code = "20000000"

\* a test that keeps polling on the first of the two codes only
InProgressFirstOnly(code) == code = "20000001"

\* line 93: code in ('20000001', '20000002')
InProgress(code) == code \in {"20000001", "20000002"}

\* query_response.json() of the k-th query
TranscriptionResult(k) == [kind |-> "returned", value |-> "query_response.json()", poll |-> k]

TranscriptionError(message, k) ==
    [kind |-> "TranscriptionError", value |-> message, poll |-> k]

\* lines 23-24: APPID or TOKEN is not configured
VolcNotConfigured ==
    /\ volc_pc = "start"
    /\ volc_outcome' = TranscriptionError("not configured", 0)
    /\ volc_pc' = "raised"
    /\ UNCHANGED <<submit_code, query_code, x_tt_logid, current_sleep_time, volc_polls>>
    /\ UNCHANGED <<pipelineVars, sepVars, taskVars, callVars, jobVars, pptVars>>

\* lines 58-62: the submit request raises
VolcSubmitFails ==
    /\ volc_pc = "start"
    /\ volc_outcome' = TranscriptionError("network error on submit", 0)
    /\ volc_pc' = "raised"
    /\ UNCHANGED <<submit_code, query_code, x_tt_logid, current_sleep_time, volc_polls>>
    /\ UNCHANGED <<pipelineVars, sepVars, taskVars, callVars, jobVars, pptVars>>

\* lines 59-69, 26-27, 79: the submit request is answered; on the code of
\* success _poll_for_result is entered with the log id of the response
VolcSubmitResponds(code, logid) ==
    /\ volc_pc = "start"
    /\ submit_code' = code
    /\ IF Succeeded(code)
       THEN /\ x_tt_logid' = logid
            /\ current_sleep_time' = Seconds(QUERY_INITIAL_SLEEP)
            /\ volc_pc' = "loop"
            /\ UNCHANGED volc_outcome
       ELSE /\ volc_outcome' = TranscriptionError("submit failed", 0)
            /\ volc_pc' = "raised"
            /\ UNCHANGED <<x_tt_logid, current_sleep_time>>
    /\ UNCHANGED <<query_code, volc_polls>>
    /\ UNCHANGED <<pipelineVars, sepVars, taskVars, callVars, jobVars, pptVars>>

\* lines 80-84: while True, the next query request is sent
VolcQuery ==
    /\ volc_pc = "loop"
    /\ volc_polls < MaxVolcPolls
    /\ volc_polls' = volc_polls + 1
    /\ volc_pc' = "querying"
    /\ UNCHANGED <<submit_code, query_code, x_tt_logid, current_sleep_time, volc_outcome>>
    /\ UNCHANGED <<pipelineVars, sepVars, taskVars, callVars, jobVars, pptVars>>

\* lines 84-87: the query request raises
VolcQueryFails ==
    /\ volc_pc = "querying"
    /\ volc_outcome' = TranscriptionError("network error on query", volc_polls)
    /\ volc_pc' = "raised"
    /\ UNCHANGED <<submit_code, query_code, x_tt_logid, current_sleep_time, volc_polls>>
    /\ UNCHANGED <<pipelineVars, sepVars, taskVars, callVars, jobVars, pptVars>>

\* line 92: query_response.json() raises on a body that is not JSON
JsonError(k) == [kind |-> "JSONDecodeError", value |-> "query_response.json()", poll |-> k]

\* lines 88-99: the query request is answered
VolcQueryResponds(code, logid, is_json) ==
    /\ volc_pc = "querying"
    /\ query_code' = code
    /\ x_tt_logid' = IF logid # "" THEN logid ELSE x_tt_logid
    /\ IF Succeeded(code)
       THEN /\ volc_outcome' = IF is_json THEN TranscriptionResult(volc_polls)
                                ELSE JsonError(volc_polls)
            /\ volc_pc' = IF is_json THEN "returned" ELSE "raised"
            /\ UNCHANGED current_sleep_time
       ELSE IF InProgress(code)
       THEN /\ current_sleep_time' = NextSleepTime(current_sleep_time)
            /\ volc_pc' = "loop"
            /\ UNCHANGED volc_outcome
       ELSE /\ volc_outcome' = TranscriptionError("task failed", volc_polls)
            /\ volc_pc' = "raised"
            /\ UNCHANGED current_sleep_time
    /\ UNCHANGED <<submit_code, volc_polls>>
    /\ UNCHANGED <<pipelineVars, sepVars, taskVars, callVars, jobVars, pptVars>>

\* the values of X-Api-Status-Code ("" when the header is absent) and of
\* X-Tt-Logid
StatusCodes == {"20000000", "20000001", "20000002", "20000003", "45000001", ""}
LogIds == {"", "log a", "log b"}

InitVolc ==
    /\ PipelineUnused
    /\ SeparatorIdle
    /\ TasksIdle
    /\ CallIdle
    /\ JobIdle
    /\ PptIdle
    /\ volc_pc = "start"
    /\ submit_code = "-"
    /\ query_code = "-"
    /\ x_tt_logid = "-"
    /\ current_sleep_time = 0
    /\ volc_polls = 0
    /\ volc_outcome = NoVolcOutcome

NextVolc ==
    \/ VolcNotConfigured
    \/ VolcSubmitFails
    \/ \E code \in StatusCodes, logid \in LogIds : VolcSubmitResponds(code, logid)
    \/ VolcQuery
    \/ VolcQueryFails
    \/ \E code \in StatusCodes, logid \in LogIds, is_json \in BOOLEAN :
          VolcQueryResponds(code, logid, is_json)

SpecVolc == InitVolc /\ [][NextVolc]_vars

----------------------------------------------------------------------------
(* Properties *)




ImageUnits == {i \in 1..Len(document_units) : Len(document_units[i].images) >= 1}

\* the run went through the executor and its report parts are complete
Assembled == analysis_tasks # <<>> /\ pc \in {"post", "summarizing", "done"}

\* position of the unit called id in the extractor's output
PosOf(id) == CHOOSE i \in 1..Len(document_units) : document_units[i].unit_identifier = id

\* the unit whose images hold blob b
OwnerOf(b) ==
    document_units[CHOOSE i \in 1..Len(document_units) :
                      \E k \in 1..Len(document_units[i].images) :
                          document_units[i].images[k] = b].unit_identifier

\* the images of the analysis call a result comes from
RECURSIVE ValueImages(_)
ValueImages(v) == IF v.kind \in {"response", "error"} THEN v.images ELSE ValueImages(v.e)

\* the unit a result is about
RECURSIVE ValueUnit(_)
ValueUnit(v) ==
    IF v.kind \in {"response", "error"}
    THEN IF v.prompt.tpl = "STAGE2_AGGREGATION_PROMPT"
         THEN v.prompt.unit_identifier
         ELSE OwnerOf(v.images[1])
    ELSE ValueUnit(v.e)

\* the unit a part of the report is about
PartUnit(p) ==
    CASE p.part = "image_analysis" -> ValueUnit(p.analyses[1])
      [] p.part = "merged" -> ValueUnit(p.aggregated_result)
      [] OTHER -> p.identifier

IsAnalysisPart(p) == p.part \in {"image_analysis", "unit_analysis", "merged", "merge_failed"}

\* some unit's results were collected in another order than its batches
CollectedOutOfOrder(u) ==
    LET r == per_unit_analysis_results[u]
    IN  \E i, j \in 1..Len(r) :
            /\ i < j
            /\ IF use_direct_output_mode
               THEN r[i][1] > r[j][1]
               ELSE ValueImages(r[i])[1] > ValueImages(r[j])[1]

\* C1: in both modes and whatever the completion order, the parts of the
\* report follow the extractor's unit order (a part about a later unit never
\* precedes a part about an earlier one), and once assembled every unit with
\* images has its analysis part.
C1_ReportFollowsUnitOrder ==
    /\ \A i, j \in 1..Len(final_content_parts) :
          i < j => PosOf(PartUnit(final_content_parts[i]))
                      <= PosOf(PartUnit(final_content_parts[j]))
    /\ Assembled =>
          \A u \in ImageUnits :
              \E i \in 1..Len(final_content_parts) :
                  /\ IsAnalysisPart(final_content_parts[i])
                  /\ PartUnit(final_content_parts[i]) = document_units[u].unit_identifier

\* an aggregate-mode run is done although page 1's second batch was collected
\* before its first
C1_Witness ==
    /\ pc = "done"
    /\ ~use_direct_output_mode
    /\ Cardinality(ImageUnits) > DIRECT_UNIT_LIMIT
    /\ CollectedOutOfOrder(1)
    /\ Len(final_content_parts) >= Cardinality(ImageUnits)

\* the entry of every task, per unit, in batch order: what the executor
\* stage leaves when the tasks complete in the order they were planned
InOrderResults ==
    [u \in DOMAIN per_unit_analysis_results |->
        LET mine == SelectSeq(analysis_tasks, LAMBDA t : t.info[1] = u)
        IN  [k \in 1..Len(mine) |->
                IF use_direct_output_mode THEN DirectEntry(mine[k]) ELSE AggregateEntry(mine[k])]]

ReferenceParts ==
    IF use_direct_output_mode
    THEN DirectParts(document_units, InOrderResults)
    ELSE Flatten([i \in 1..Len(document_units) |->
                    AggregateUnitParts(document_units[i],
                                       InOrderResults[document_units[i].unit_identifier])])

\* the report of the run in which the tasks complete in planning order
ReferenceReport == FinalReport(FileExt(filename), ReferenceParts)

\* C2: with the deterministic service svc, the report returned is the same
\* for every completion order of the analysis tasks: it is the report of the
\* run whose tasks complete in planning order.
C2_ReportIndependentOfCompletionOrder ==
    (pc = "done" /\ analysis_tasks # <<>>) => report = ReferenceReport

\* the same, in direct mode only
DirectReportIndependentOfCompletionOrder ==
    (pc = "done" /\ analysis_tasks # <<>> /\ use_direct_output_mode) => report = ReferenceReport

\* the k-th smallest member of a set of numbers
Kth(S, k) == CHOOSE x \in S : Cardinality({y \in S : y < x}) = k - 1

\* C3: when no unit has an image, the run ends at once with no model call
\* and its report is the notice followed by identifier and text of exactly
\* the units whose text is not empty, in extraction order.
C3_NoImagesNoCalls ==
    ( /\ pc # "start"
      /\ FileExt(filename) \in SupportedExts
      /\ readable
      /\ \A i \in 1..Len(file_content) : Len(file_content[i].images) = 0 )
    => /\ pc = "done"
       /\ call_log = <<>>
       /\ report.kind = "no_images_notice"
       /\ LET withText == {i \in 1..Len(file_content) : Len(file_content[i].text) > 0}
          IN  /\ Len(report.all_texts) = Cardinality(withText)
              /\ \A k \in 1..Len(report.all_texts) :
                    /\ report.all_texts[k].identifier
                          = file_content[Kth(withText, k)].unit_identifier
                    /\ report.all_texts[k].text = file_content[Kth(withText, k)].text

\* a text-only document with a unit without text between two units with text
C3_Witness ==
    /\ pc = "done"
    /\ report.kind = "no_images_notice"
    /\ Len(file_content) = 3
    /\ Len(report.all_texts) = 2
    /\ file_content[2].text = <<>>

\* C4: with U >= 1 units that have an image, direct mode is chosen exactly
\* when the format is docx or xlsx or U <= 10, aggregate mode exactly when
\* the format is pptx or pdf and U >= 11; units without images do not count.
C4_ModeSelection ==
    pc = "submit" =>
        LET U == Cardinality(ImageUnits)
            ext == FileExt(filename)
        IN  /\ U >= 1
            /\ use_direct_output_mode <=> (ext \in {"docx", "xlsx"} \/ U <= 10)
            /\ ~use_direct_output_mode <=> (ext \in {"pptx", "pdf"} /\ U >= 11)
            /\ U = 10 => use_direct_output_mode
            /\ (U = 11 /\ ext \in {"pptx", "pdf"}) => ~use_direct_output_mode

\* twelve pages, ten of them with images: direct mode
C4_Witness ==
    /\ pc = "submit"
    /\ FileExt(filename) = "pdf"
    /\ Len(document_units) = 12
    /\ Cardinality(ImageUnits) = 10
    /\ use_direct_output_mode

\* the least number of batches of at most 8 that hold n images
BatchesFor(n) == CHOOSE c \in 0..n : c * 8 >= n /\ \A d \in 0..(c - 1) : d * 8 < n

TasksOf(u) == SelectSeq(analysis_tasks, LAMBDA t : t.info[1] = u)

\* C5: in both modes a unit of n >= 1 images gets exactly ceil(n/8) tasks,
\* numbered 0, 1, ... in order; every batch has 1 to 8 images, every batch
\* but the last has 8, and the batches in order are the unit's images; a
\* unit without images gets no task.
C5_Batching ==
    pc = "submit" =>
        \A i \in 1..Len(document_units) :
            LET unit == document_units[i]
                mine == TasksOf(unit.unit_identifier)
            IN  /\ Len(mine) = BatchesFor(Len(unit.images))
                /\ \A k \in 1..Len(mine) :
                      /\ mine[k].info[2] = k - 1
                      /\ Len(mine[k].images) \in 1..8
                      /\ k < Len(mine) => Len(mine[k].images) = 8
                /\ Flatten([k \in 1..Len(mine) |-> mine[k].images]) = unit.images

\* an aggregate-mode document whose first page has 17 images: three batches
C5_Witness ==
    /\ pc = "submit"
    /\ ~use_direct_output_mode
    /\ Len(document_units[1].images) = 17
    /\ Len(TasksOf(document_units[1].unit_identifier)) = 3
    /\ \E i \in 1..Len(document_units) : Len(document_units[i].images) = 0

MergeCallsMade ==
    {k \in 1..Len(call_log) : call_log[k].prompt.tpl = "STAGE2_AGGREGATION_PROMPT"}

\* C6: a run in direct mode makes no merge call; a run in aggregate mode
\* makes one merge call for each unit of more than 8 images and none for any
\* other unit.
C6_MergeCalls ==
    /\ use_direct_output_mode => MergeCallsMade = {}
    /\ \A k \in MergeCallsMade :
          Len(document_units[PosOf(call_log[k].prompt.unit_identifier)].images) > 8
    /\ \A k, l \in MergeCallsMade :
          call_log[k].prompt.unit_identifier = call_log[l].prompt.unit_identifier => k = l
    /\ Assembled =>
          Cardinality(MergeCallsMade) =
              IF use_direct_output_mode THEN 0
              ELSE Cardinality({i \in 1..Len(document_units) :
                                   Len(document_units[i].images) > 8})

\* an aggregate-mode run that ended after one merge call, with single-batch
\* pages around
C6_Witness ==
    /\ pc = "done"
    /\ ~use_direct_output_mode
    /\ Cardinality(MergeCallsMade) = 1
    /\ \E i \in 1..Len(document_units) : Len(document_units[i].images) \in 1..8

\* C7: never more than 5 analysis calls in flight; a task beyond the fifth
\* starts only once an earlier one has settled.
C7_AtMostFiveInFlight ==
    LET started == {i \in Tasks : fut[i] \in {"running", "finished"}}
        settled == {i \in Tasks : fut[i] = "finished"}
    IN  /\ Cardinality({i \in Tasks : fut[i] = "running"}) <= 5
        /\ Cardinality(started) <= Cardinality(settled) + 5

\* five calls in flight, one of them the sixth task, and a task still queued
C7_Witness ==
    /\ Cardinality({i \in Tasks : fut[i] = "running"}) = 5
    /\ \E i \in Tasks : i > 5 /\ fut[i] = "running"
    /\ \E i \in Tasks : fut[i] = "pending"

AfterExecutor == pc \in {"assemble", "aggregate", "merging", "post", "summarizing", "done"}

\* C8: while any analysis task is not settled, nothing of assembly, merging
\* or post-processing has happened; once the executor stage is left every
\* task is settled and taken, and no call of the pool is running.
C8_FanInBarrier ==
    /\ (\E i \in Tasks : fut[i] # "finished") =>
          /\ ~AfterExecutor
          /\ final_content_parts = <<>>
          /\ MergeCallsMade = {}
          /\ report = NoReport
    /\ (AfterExecutor /\ analysis_tasks # <<>>) =>
          /\ \A i \in Tasks : fut[i] = "finished" /\ i \in yielded
          /\ Len(call_log) >= Len(analysis_tasks)

\* the executor stage of a run with more tasks than workers has just ended
C8_Witness ==
    /\ pc \in {"assemble", "aggregate"}
    /\ Len(analysis_tasks) > MAX_WORKERS
    /\ final_content_parts = <<>>

EntryOf(t) == IF use_direct_output_mode THEN DirectEntry(t) ELSE AggregateEntry(t)

\* the results collected so far are the entries of the futures handed out
\* so far, each once
ResultsMatchYielded ==
    \A u \in DOMAIN per_unit_analysis_results :
        LET r == per_unit_analysis_results[u]
            got == {i \in yielded : analysis_tasks[i].info[1] = u}
        IN  /\ Len(r) = Cardinality(got)
            /\ \A k \in 1..Len(r) : \E i \in got : r[k] = EntryOf(analysis_tasks[i])
            /\ \A k, l \in 1..Len(r) : r[k] = r[l] => k = l

\* after the executor stage every unit has as many results as batches
ResultsComplete ==
    (AfterExecutor /\ analysis_tasks # <<>>) =>
        \A i \in 1..Len(document_units) :
            Len(per_unit_analysis_results[document_units[i].unit_identifier])
                = BatchesFor(Len(document_units[i].images))

\* a step that changes the results is one append by the collecting loop, and
\* a step of a pool thread (it changes a future) leaves the results alone
SingleWriter ==
    /\ (pc # "start" /\ per_unit_analysis_results' # per_unit_analysis_results) =>
          /\ pc = "collect" /\ pc' = "collect"
          /\ fut' = fut
          /\ \E i \in Tasks \ yielded : yielded' = yielded \cup {i}
    /\ (pc # "start" /\ fut' # fut) =>
          per_unit_analysis_results' = per_unit_analysis_results

\* C9: the results hold exactly one entry per task handed out, none lost or
\* duplicated; after the executor stage each unit has as many results as
\* batches; only the collecting loop writes the results.
C9_OneResultPerTask ==
    /\ [](ResultsMatchYielded /\ ResultsComplete)
    /\ [][SingleWriter]_vars

\* the executor stage has ended with the three results of a unit collected
\* in another order than their batches
C9_Witness ==
    /\ pc = "assemble"
    /\ \E u \in DOMAIN per_unit_analysis_results :
          Len(per_unit_analysis_results[u]) = 3 /\ CollectedOutOfOrder(u)

\* the successful result of task t is in the report of its unit, or in the
\* merge prompt of its unit
Retained(t) ==
    LET r == ModelResponse(t.prompt, t.images)
        u == t.info[1]
        parts == final_content_parts
    IN  IF use_direct_output_mode
        THEN \E p \in 2..Len(parts) :
                /\ parts[p].part = "image_analysis"
                /\ parts[p - 1].part = "unit_section"
                /\ parts[p - 1].identifier = u
                /\ \E a \in 1..Len(parts[p].analyses) : parts[p].analyses[a] = r
        ELSE IF Len(TasksOf(u)) = 1
        THEN \E p \in 1..Len(parts) :
                /\ parts[p].part = "unit_analysis"
                /\ parts[p].identifier = u
                /\ parts[p].analysis = r
        ELSE \E k \in MergeCallsMade :
                /\ call_log[k].prompt.unit_identifier = u
                /\ \E a \in 1..Len(call_log[k].prompt.combined_analyses) :
                      call_log[k].prompt.combined_analyses[a] = r

\* C10: whichever analysis calls raise, every task was called, and the
\* result of every task whose call did not raise is kept: in the analysis
\* section of its own unit, or (aggregate mode, unit of several batches) in
\* the merge prompt of its own unit.
C10_FailureIsolation ==
    Assembled =>
        \A i \in Tasks :
            LET t == analysis_tasks[i]
            IN  /\ \E k \in 1..Len(call_log) :
                      call_log[k] = [prompt |-> t.prompt, images |-> t.images]
                /\ ~ServiceRaises(t.prompt, t.images) => Retained(t)

\* a run is done in which one batch of a unit failed and another succeeded
C10_Witness ==
    /\ pc = "done"
    /\ \E i, j \in Tasks :
          /\ analysis_tasks[i].info[1] = analysis_tasks[j].info[1]
          /\ ServiceRaises(analysis_tasks[i].prompt, analysis_tasks[i].images)
          /\ ~ServiceRaises(analysis_tasks[j].prompt, analysis_tasks[j].images)
          /\ Retained(analysis_tasks[j])

\* the entry of per_unit_analysis_results that task i was recorded as, in
\* the shape the mode keeps it: (chunk_index, text) in direct mode, the
\* text alone in aggregate mode
RecordedTexts(u) ==
    LET r == per_unit_analysis_results[u]
    IN  {IF use_direct_output_mode THEN r[k][2] ELSE r[k] : k \in 1..Len(r)}

\* text p is a failure placeholder that names batch index b and carries the
\* reason e
NamesBatchAndReason(p, b, e) ==
    /\ p.kind \in {"batch_failed", "failed"}
    /\ "batch" \in DOMAIN p
    /\ p.batch = b
    /\ p.e = e

\* C11: in both modes, the result recorded for an analysis task whose call
\* failed is a placeholder that names the task's batch index and contains the
\* failure reason.
C11_PlaceholderNamesBatch ==
    \A i \in yielded :
        LET t == analysis_tasks[i]
        IN  ServiceRaises(t.prompt, t.images) =>
                \E p \in RecordedTexts(t.info[1]) :
                    NamesBatchAndReason(p, t.info[2], ModelError(t.prompt, t.images))

\* the same, for the runs in direct mode
DirectPlaceholderNamesBatch == use_direct_output_mode => C11_PlaceholderNamesBatch

\* the model-service call of analysis task t
AnalysisCall(t) == [prompt |-> t.prompt, images |-> t.images]

\* where call c stands in the log of calls
CallsOf(c) == {k \in 1..Len(call_log) : call_log[k] = c}

SummaryCallsMade ==
    {k \in 1..Len(call_log) : call_log[k].prompt.tpl = "SUMMARIZATION_PROMPT"}

\* C12: no call is retried inside a run: every started analysis task has
\* caused exactly one call, failed or not, a task not yet started none; a
\* unit has at most one merge call; there is at most one summarization
\* call; a finished run has made (batches) + (merge calls) + (0 or 1) calls.
C12_NoRetry ==
    /\ \A i \in Tasks :
          Cardinality(CallsOf(AnalysisCall(analysis_tasks[i])))
              = IF fut[i] \in {"running", "finished"} THEN 1 ELSE 0
    /\ \A k, l \in MergeCallsMade :
          call_log[k].prompt.unit_identifier = call_log[l].prompt.unit_identifier => k = l
    /\ Cardinality(SummaryCallsMade) <= 1
    /\ pc = "done" =>
          Len(call_log) = Len(analysis_tasks) + Cardinality(MergeCallsMade)
                              + Cardinality(SummaryCallsMade)

\* a finished run in which an analysis call and the summarization call raised
C12_Witness ==
    /\ pc = "done"
    /\ \E i \in Tasks : ServiceRaises(analysis_tasks[i].prompt, analysis_tasks[i].images)
    /\ SummaryCallsMade # {}
    /\ svc.bad_summary

\* runs r end with the runs tail
EndsWith(r, tail) ==
    Len(r) >= Len(tail) /\ SubSeq(r, Len(r) - Len(tail) + 1, Len(r)) = tail

\* units with exactly one batch
SingleBatchUnits == {i \in ImageUnits : Len(TasksOf(document_units[i].unit_identifier)) = 1}

\* the analysis section of the unit at position i holds text r and nothing
\* else after its heading
SectionIsVerbatim(i, r) ==
    LET id == document_units[i].unit_identifier
        parts == final_content_parts
        ext == FileExt(filename)
    IN  IF use_direct_output_mode
        THEN \E p \in 2..Len(parts) :
                /\ parts[p - 1].part = "unit_section"
                /\ parts[p - 1].identifier = id
                /\ parts[p].part = "image_analysis"
                /\ parts[p].analyses = <<r>>
                /\ EndsWith(PartRuns(ext, parts[p]), Run("W", 2) \o ValueRuns(r))
        ELSE \E p \in 1..Len(parts) :
                /\ parts[p].part = "unit_analysis"
                /\ parts[p].identifier = id
                /\ parts[p].analysis = r
                /\ EndsWith(PartRuns(ext, parts[p]), Run("W", 1) \o ValueRuns(r))

\* C13: in both modes, a unit with images and exactly one batch result, a
\* success or a failure placeholder, has that result unchanged as its
\* analysis section, and no merge call is made for it.
C13_SingleResultVerbatim ==
    Assembled =>
        \A i \in SingleBatchUnits :
            LET id == document_units[i].unit_identifier
            IN  /\ Len(per_unit_analysis_results[id]) = 1
                /\ \A r \in RecordedTexts(id) : SectionIsVerbatim(i, r)
                /\ \A k \in MergeCallsMade : call_log[k].prompt.unit_identifier # id

\* a finished direct-mode run with a single-batch unit whose call failed and
\* another whose call succeeded
C13_Witness ==
    /\ pc = "done"
    /\ use_direct_output_mode
    /\ \E i, j \in SingleBatchUnits :
          /\ \E r \in RecordedTexts(document_units[i].unit_identifier) : r.kind = "batch_failed"
          /\ \E r \in RecordedTexts(document_units[j].unit_identifier) : r.kind = "response"

\* units with more than one batch
MultiBatchUnits == {i \in ImageUnits : Len(TasksOf(document_units[i].unit_identifier)) > 1}

\* the parts of the report that are about unit id
PartsAbout(id) ==
    {p \in 1..Len(final_content_parts) : PartUnit(final_content_parts[p]) = id}

\* part p is the merge-failed section of unit id: its header, then the
\* result of every batch of the unit, each once
IsRawConcatenation(p, id) ==
    LET tasks == TasksOf(id)
    IN  /\ p.part = "merge_failed"
        /\ p.identifier = id
        /\ Len(p.analyses) = Len(tasks)
        /\ \A k \in 1..Len(tasks) :
              Cardinality({a \in 1..Len(p.analyses) :
                              p.analyses[a] = AggregateEntry(tasks[k])}) = 1
        /\ RunsLen(PartRuns(FileExt(filename), p))
              > SumSeq([k \in 1..Len(tasks) |-> RunsLen(ValueRuns(AggregateEntry(tasks[k])))])

\* C14: in aggregate mode a merge call that raises is absorbed: the unit's
\* section is the merge-failed header followed by every batch result of the
\* unit, each once, and the later units are still processed; a merge call
\* that succeeds gives the merged text alone as the unit's section.
C14_MergeFailureDegrades ==
    (Assembled /\ ~use_direct_output_mode) =>
        \A i \in MultiBatchUnits :
            LET id == document_units[i].unit_identifier
                call == MergeCall(id, per_unit_analysis_results[id])
            IN  /\ Cardinality(PartsAbout(id)) = 1
                /\ \A p \in PartsAbout(id) :
                      IF ServiceRaises(call.prompt, call.images)
                      THEN IsRawConcatenation(final_content_parts[p], id)
                      ELSE /\ final_content_parts[p].part = "merged"
                           /\ final_content_parts[p].aggregated_result
                                  = ModelResponse(call.prompt, call.images)
                /\ \A j \in ImageUnits :
                      j > i => PartsAbout(document_units[j].unit_identifier) # {}

\* a finished aggregate-mode run whose merge call raised, over a unit one of
\* whose batches had failed too
C14_Witness ==
    /\ pc = "done"
    /\ ~use_direct_output_mode
    /\ svc.bad_images # {}
    /\ \E p \in 1..Len(final_content_parts) :
          /\ final_content_parts[p].part = "merge_failed"
          /\ p < Len(final_content_parts)

\* the text the report is to show for a unit: its own text, or the note
\* that it has none
ShownText(unit) == IF Strip(unit.text) # <<>> THEN Strip(unit.text) ELSE NoTextNote

\* part p is a section header with the identifier of the unit and its text
IsHeaderWithText(p, unit) ==
    /\ p.part \in {"unit_section", "no_image_unit"}
    /\ p.identifier = unit.unit_identifier
    /\ p.text = ShownText(unit)

\* the report has, for the unit at position i, a header with its identifier
\* and its text (or the no-text note), followed by its analysis section
\* exactly when it has images
HasFullSection(i) ==
    LET unit == document_units[i]
        parts == final_content_parts
    IN  \E p \in 1..Len(parts) :
            /\ IsHeaderWithText(parts[p], unit)
            /\ HasImages(unit) <=>
                  /\ p < Len(parts)
                  /\ IsAnalysisPart(parts[p + 1])
                  /\ PartUnit(parts[p + 1]) = unit.unit_identifier

\* C15: in every run that reaches assembly, in either mode, the report has
\* for each extracted unit (without images or with empty text too) a section
\* header with the unit's identifier, then the unit's text or a no-text
\* note, and its analysis section if and only if the unit has images.
C15_EveryUnitHasSection ==
    Assembled => \A i \in 1..Len(document_units) : HasFullSection(i)

\* the same, for the runs in direct mode
DirectEveryUnitHasSection == use_direct_output_mode => C15_EveryUnitHasSection

\* runs with adjacent runs of one class made one
Normalize(runs) ==
    LET starts == {i \in 1..Len(runs) : i = 1 \/ runs[i].c # runs[i - 1].c}
        endOf(i) == CHOOSE j \in i..Len(runs) :
                        /\ \A m \in i..j : runs[m].c = runs[i].c
                        /\ j = Len(runs) \/ runs[j + 1].c # runs[i].c
    IN  [k \in 1..Cardinality(starts) |->
            LET i == Kth(starts, k)
            IN  [c |-> runs[i].c, n |-> SumRange([j \in 1..Len(runs) |-> runs[j].n], i, endOf(i))]]

\* the separators in parts, each as the number of input characters before it
SeparatorPositions(parts) ==
    {SumSeq([j \in 1..(k - 1) |-> IF parts[j].c = "S" THEN 0 ELSE parts[j].n]) :
        k \in {k \in 1..Len(parts) : parts[k].c = "S"}}

\* how many consecutive non-ASCII characters end at the p-th character of runs
NonAsciiStreak(runs, p) ==
    LET before(i) == SumRange([j \in 1..Len(runs) |-> runs[j].n], 1, i - 1)
        at == CHOOSE i \in 1..Len(runs) : before(i) < p /\ p <= before(i) + runs[i].n
        from == CHOOSE j \in 1..at :
                    /\ \A m \in j..at : IsNonAscii(runs[m].c)
                    /\ j = 1 \/ ~IsNonAscii(runs[j - 1].c)
    IN  IF IsNonAscii(runs[at].c) THEN p - before(from) ELSE 0

\* where the claim puts the separators: after each character at which the
\* count since the last ASCII character or separator reaches lim
ExpectedPositions(runs, lim) ==
    {p \in 1..TextLen(runs) :
        NonAsciiStreak(runs, p) > 0 /\ NonAsciiStreak(runs, p) % lim = 0}

\* C16: _add_separators_for_non_ascii inserts a separator after exactly the
\* characters at which the count of consecutive non-ASCII characters since
\* the last ASCII character or separator reaches the limit, and changes
\* nothing else; n non-ASCII characters get n div limit separators, after
\* positions limit, 2*limit, ... (5000 characters and limit 2000: after 2000
\* and 4000); a text whose non-ASCII runs are all shorter than the limit is
\* returned unchanged.
C16_SeparatorPlacement ==
    sep_pc = "returned" =>
        LET kept == SelectSeq(new_parts, LAMBDA r : r.c # "S")
            seps == SelectSeq(new_parts, LAMBDA r : r.c = "S")
            n == TextLen(arg_text)
        IN  /\ Normalize(kept) = Normalize(arg_text)
            /\ SeparatorPositions(new_parts) = ExpectedPositions(arg_text, arg_limit)
            /\ Len(seps) = Cardinality(SeparatorPositions(new_parts))
            /\ (\A i \in 1..Len(arg_text) : IsNonAscii(arg_text[i].c)) =>
                  /\ Len(seps) = n \div arg_limit
                  /\ SeparatorPositions(new_parts) = {arg_limit * j : j \in 1..(n \div arg_limit)}
            /\ (arg_text = Run("N", 5000) /\ arg_limit = 2000) =>
                  SeparatorPositions(new_parts) = {2000, 4000}
            /\ (\A p \in 1..n : NonAsciiStreak(arg_text, p) < arg_limit) =>
                  Normalize(separated) = Normalize(arg_text)
            /\ Normalize(separated)
                  = Normalize(AddSeparatorsForNonAscii(arg_text, arg_limit))

\* the call on 5000 non-ASCII characters has returned, with two separators
C16_Witness ==
    /\ sep_pc = "returned"
    /\ arg_text = Run("N", 5000)
    /\ arg_limit = SEPARATOR_LIMIT
    /\ Len(SelectSeq(new_parts, LAMBDA r : r.c = "S")) = 2

\* the report after separator insertion, and the report before it
SeparatedReport == ReportWithSeparators(FileExt(filename), final_content_parts)
JoinedReport == InitialReportRuns(FileExt(filename), final_content_parts)

\* the run is past the length check of the post-processing
PastLengthCheck == analysis_tasks # <<>> /\ pc \in {"summarizing", "done"}

\* C17: a summarization call is made if and only if the report after
\* separator insertion is longer than 8000 characters, separators counted;
\* at 8000 characters or fewer no call is made and that string is returned
\* as it is.
C17_SummarizeIffOverBudget ==
    PastLengthCheck =>
        /\ SummaryCallsMade # {} <=> RunsLen(SeparatedReport) > 8000
        /\ (pc = "done" /\ RunsLen(SeparatedReport) <= 8000) =>
              /\ report.kind = "report"
              /\ report.runs = SeparatedReport
              /\ Len(call_log) = Len(analysis_tasks) + Cardinality(MergeCallsMade)

\* a report of exactly 8000 characters, separators included, was returned
\* without a call
C17_Witness ==
    /\ pc = "done"
    /\ analysis_tasks # <<>>
    /\ RunsLen(SeparatedReport) = 8000
    /\ RunsLen(JoinedReport) < 8000
    /\ SummaryCallsMade = {}
    /\ report.kind = "report"

\* the separators alone took the report past the budget, and the call was made
SeparatorsCountTowardLength ==
    /\ pc = "done"
    /\ analysis_tasks # <<>>
    /\ RunsLen(JoinedReport) <= 8000
    /\ RunsLen(SeparatedReport) = 8001
    /\ SummaryCallsMade # {}

\* runs a are the first characters of runs b
IsPrefix(a, b) ==
    LET x == Normalize(a)
        y == Normalize(b)
    IN  /\ Len(x) <= Len(y)
        /\ \A i \in 1..(Len(x) - 1) : x[i] = y[i]
        /\ x # <<>> => x[Len(x)].c = y[Len(x)].c /\ x[Len(x)].n <= y[Len(x)].n

C19_SummaryTrusted ==
    (pc = "done" /\ SummaryCallsMade # {} /\ ~svc.bad_summary) =>
        /\ \A k \in SummaryCallsMade :
              report = ModelResponse(call_log[k].prompt, call_log[k].images)
        /\ RunsLen(ValueRuns(report)) = svc.summary_chars
        /\ Cardinality(SummaryCallsMade) = 1
        /\ SummaryCallsMade = {Len(call_log)}

\* a summary of more than 8000 characters was returned
C19_Witness ==
    /\ pc = "done"
    /\ SummaryCallsMade # {}
    /\ report.kind = "response"
    /\ report.prompt.tpl = "SUMMARIZATION_PROMPT"
    /\ RunsLen(ValueRuns(report)) > 8000

\* the characters of the string the run returned
ReturnedRuns ==
    CASE report.kind = "no_images_notice" -> NoticeRuns(FileExt(filename), report.all_texts)
      [] report.kind = "response" -> ValueRuns(report)
      [] OTHER -> report.runs

\* the returned string is what post-processing gives: a summary, or a
\* string with no more than 2000 non-ASCII characters in a row that is
\* within 8000 characters unless it is the truncation
IsPostProcessed ==
    \/ report.kind = "response"
    \/ /\ \A r \in Range(Normalize(ReturnedRuns)) : IsNonAscii(r.c) => r.n <= 2000
       /\ RunsLen(ReturnedRuns) <= 8000 \/ report.kind = "truncated"

\* C20: every run that returns a report has applied separator insertion and
\* the length budget to it, on every path, the path of a document without
\* images included.
C20_AlwaysPostProcessed == pc = "done" => IsPostProcessed

\* the same, for the runs that made analysis calls
AnalysedReportPostProcessed == analysis_tasks # <<>> => C20_AlwaysPostProcessed

\* work the executor stage still has to do: a future goes created, pending,
\* running, finished, and is then handed out by as_completed
ExecutorWork ==
    3 * Cardinality({i \in DOMAIN fut : fut[i] = "created"})
        + 2 * Cardinality({i \in DOMAIN fut : fut[i] = "pending"})
        + Cardinality({i \in DOMAIN fut : fut[i] = "running"})
        + Len(analysis_tasks) - Cardinality(yielded)

\* a measure of the steps a run can still take
StepsLeft ==
    LET U == Len(document_units)
    IN  CASE pc = "start" ->
                2 * Len(file_content) + 6
                    + 4 * Cardinality(UNION {{i} \X DOMAIN file_content[i].images :
                                                i \in DOMAIN file_content})
          [] pc \in {"submit", "collect"} -> 2 * U + 5 + ExecutorWork
          [] pc \in {"aggregate", "merging"} ->
                3 + 2 * (U + 1 - unit_pos) + (IF pc = "aggregate" THEN 1 ELSE 0)
          [] pc = "assemble" -> 3
          [] pc = "post" -> 2
          [] pc = "summarizing" -> 1
          [] OTHER -> 0

\* some thread can take a step, given that a running call returns or raises
CanStep ==
    \/ pc = "start"
    \/ pc = "submit" /\ \E i \in Tasks : fut[i] = "created"
    \/ \E i \in Tasks : QueueHead(i) /\ WorkerAvailable
    \/ \E i \in Tasks : fut[i] = "running" /\ Cardinality(Backlog) < MaxBacklog
    \/ pc = "collect" /\ \E i \in Tasks \ yielded : fut[i] = "finished"
    \/ pc = "collect" /\ AllYielded
    \/ pc \in {"assemble", "aggregate", "merging", "post", "summarizing"}

\* C21: once extraction has succeeded the run ends in Done with a report,
\* whichever analysis, merge and summarization calls fail, provided every
\* call returns or raises: every step lowers a natural-number measure, a run
\* that is neither Done nor Fatal can always take a step, the only step into
\* Fatal is the first one (before any model call), and Done holds a report.
C21_AlwaysTerminates ==
    /\ [][StepsLeft' < StepsLeft]_vars
    /\ [](StepsLeft \in Nat)
    /\ [](pc \notin {"done", "fatal", "extractor_raised"} => CanStep)
    /\ [](pc \in {"fatal", "extractor_raised"} =>
              (call_log = <<>> /\ report = NoReport /\ analysis_tasks = <<>>))
    /\ [](pc = "fatal" <=> (pc # "start" /\ FileExt(filename) \notin SupportedExts))
    /\ [][pc' \in {"fatal", "extractor_raised"} => pc = "start"]_vars
    /\ [](pc = "done" => report # NoReport)
    /\ [](StepsLeft = 0 <=> pc \in {"done", "fatal", "extractor_raised"})
    /\ [](pc \notin {"start", "fatal", "extractor_raised"} => readable)

\* a run ended in Done after an analysis call, a merge call and the
\* summarization call had all raised
C21_Witness ==
    /\ pc = "done"
    /\ report.kind = "truncated"
    /\ \E i \in Tasks : ServiceRaises(analysis_tasks[i].prompt, analysis_tasks[i].images)
    /\ \E p \in 1..Len(final_content_parts) : final_content_parts[p].part = "merge_failed"

\* the last dot-separated piece of the filename, as the caller wrote it
WrittenExt == filename[Len(filename)]

\* the letter cases in which the documents spell a supported extension
Spellings ==
    [pptx |-> {"pptx", "Pptx"}, pdf |-> {"pdf", "PDF"},
     docx |-> {"docx", "DOCX"}, xlsx |-> {"xlsx", "XLSX"}]

IsSupported == \E e \in SupportedExts : WrittenExt \in Spellings[e]

\* C22: a filename whose extension, letter case ignored, is not pptx, pdf,
\* docx or xlsx is rejected by the first step: nothing is extracted, no task
\* is planned, no model call is made and no report is returned; a supported
\* extension in any letter case selects the extractor of that format and is
\* never rejected.
C22_UnsupportedRejected ==
    /\ [](~IsSupported /\ pc # "start" =>
              /\ pc = "fatal"
              /\ document_units = <<>>
              /\ analysis_tasks = <<>>
              /\ fut = <<>>
              /\ call_log = <<>>
              /\ final_content_parts = <<>>
              /\ report = NoReport)
    /\ [](\A e \in SupportedExts :
              WrittenExt \in Spellings[e] =>
                  /\ FileExt(filename) \in DOMAIN extraction_map
                  /\ extraction_map[FileExt(filename)] = extraction_map[e]
                  /\ pc # "fatal"
                  /\ (pc # "start" /\ readable) => document_units = file_content)
    /\ [][~IsSupported => pc' = "fatal"]_vars

\* a readable document with text was rejected for its extension
C22_Witness ==
    /\ pc = "fatal"
    /\ WrittenExt = "TXT"
    /\ file_content # <<>>
    /\ readable

\* C23: when the extractor selected for a supported extension cannot parse
\* the bytes, the run ends at once with the extractor's own error, which is
\* not the unsupported-format error: no unit, no task, no model call, no
\* report; the unsupported-format error is raised for unsupported
\* extensions only.
C23_CorruptInputSurfaced ==
    /\ [](IsSupported /\ ~readable /\ pc # "start" =>
              /\ pc = "extractor_raised"
              /\ document_units = <<>>
              /\ analysis_tasks = <<>>
              /\ fut = <<>>
              /\ call_log = <<>>
              /\ final_content_parts = <<>>
              /\ report = NoReport)
    /\ [](pc = "fatal" => ~IsSupported)
    /\ [](pc = "extractor_raised" => IsSupported /\ ~readable)

\* an unreadable document with images and a supported extension was refused
C23_Witness ==
    /\ pc = "extractor_raised"
    /\ WrittenExt = "PDF"
    /\ ~NoImages(file_content)

IsMergeCall(c) == c.prompt.tpl = "STAGE2_AGGREGATION_PROMPT"
IsSummaryCall(c) == c.prompt.tpl = "SUMMARIZATION_PROMPT"
AnalysisCallEntry(c) == ~IsMergeCall(c) /\ ~IsSummaryCall(c)

\* the step starts a model call
StartsCall == Len(call_log') = Len(call_log) + 1

InBatchOrder(analyses) ==
    \A i, j \in 1..Len(analyses) :
        i < j => ValueImages(analyses[i])[1] < ValueImages(analyses[j])[1]

\* every list of batch results that a report part shows
ShownInBatchOrder ==
    \A p \in 1..Len(final_content_parts) :
        final_content_parts[p].part \in {"image_analysis", "merge_failed"} =>
            InBatchOrder(final_content_parts[p].analyses)

\* C26: the batch results of a unit are combined in ascending batch index,
\* whatever the completion order: in the direct-mode concatenation, in the
\* list put into a merge prompt, and in the raw concatenation that replaces
\* a failed merge.
C26_BatchOrderKept ==
    /\ ShownInBatchOrder
    /\ \A k \in MergeCallsMade : InBatchOrder(call_log[k].prompt.combined_analyses)

\* the direct-mode part of C26: the concatenation is in batch order
DirectBatchOrderKept == use_direct_output_mode => ShownInBatchOrder

\* the result held by an entry of per_unit_analysis_results
EntryValue(entry) == IF use_direct_output_mode THEN entry[2] ELSE entry

\* every result in the list is about unit id
AllAbout(analyses, id) == \A i \in 1..Len(analyses) : ValueUnit(analyses[i]) = id

\* C27: with distinct unit identifiers, the results collected for a unit,
\* the list put into its merge prompt and its section of the report hold
\* only results of calls made with that unit's own images, for every
\* completion order and every failure pattern.
C27_NoCrossUnitMixing ==
    /\ \A u \in DOMAIN per_unit_analysis_results :
          \A i \in 1..Len(per_unit_analysis_results[u]) :
              ValueUnit(EntryValue(per_unit_analysis_results[u][i])) = u
    /\ \A k \in MergeCallsMade :
          AllAbout(call_log[k].prompt.combined_analyses, call_log[k].prompt.unit_identifier)
    /\ \A p \in 1..Len(final_content_parts) :
          LET part == final_content_parts[p]
          IN  CASE part.part = "image_analysis" ->
                      /\ p > 1
                      /\ final_content_parts[p - 1].part = "unit_section"
                      /\ AllAbout(part.analyses, final_content_parts[p - 1].identifier)
                [] part.part = "merge_failed" -> AllAbout(part.analyses, part.identifier)
                [] part.part = "unit_analysis" -> ValueUnit(part.analysis) = part.identifier
                [] part.part = "merged" ->
                      AllAbout(part.aggregated_result.prompt.combined_analyses,
                               part.aggregated_result.prompt.unit_identifier)
                [] OTHER -> TRUE
    /\ \A i, j \in 1..Len(document_units) :
          i # j => document_units[i].unit_identifier # document_units[j].unit_identifier

\* a run over several units with images has ended after results were
\* collected out of batch order and a call had failed
C27_Witness ==
    /\ pc = "done"
    /\ Cardinality(ImageUnits) >= 2
    /\ \E u \in DOMAIN per_unit_analysis_results : CollectedOutOfOrder(u)
    /\ \E k \in 1..Len(call_log) : ServiceRaises(call_log[k].prompt, call_log[k].images)

\* the job of task t is run_task_in_background
Retried(t) == runner[t].via = "run_task_in_background"

\* the job of task t has returned
Exited(t) == runner[t].rpc = "exited"

\* C25: run_task_in_background with TASK_MAX_RETRIES = N >= 1 calls the
\* target at most N times, one call after the other, a further call only
\* after the one before has raised, and none after a call has returned; when
\* it exits the task is COMPLETED with the value the last call returned, or
\* FAILED after exactly N calls that all raised, with the message of the
\* N-th exception as its error.
C25_RetryWrapper ==
    /\ [](\A t \in TaskIds :
              Retried(t) =>
                  /\ runner[t].calls <= settings.TASK_MAX_RETRIES
                  /\ runner[t].rpc \in {"calling", "returned", "raised",
                                       "completed_set", "failed_set", "exited"} =>
                         runner[t].calls = runner[t].attempt + 1
                  /\ Exited(t) =>
                         \/ /\ task_dict[t].status = COMPLETED
                            /\ task_dict[t].result = ReturnValue(runner[t].calls - 1)
                            /\ task_dict[t].error = None
                         \/ /\ task_dict[t].status = FAILED
                            /\ runner[t].calls = settings.TASK_MAX_RETRIES
                            /\ task_dict[t].error = ErrorMessage(settings.TASK_MAX_RETRIES - 1)
                            /\ task_dict[t].result = None
                  /\ task_dict[t].status = COMPLETED => runner[t].local.kind = "return value"
                  /\ task_dict[t].status = FAILED => runner[t].local.kind = "str(e)")
    /\ [][\A t \in TaskIds :
              Retried(t) =>
                  /\ runner'[t].calls # runner[t].calls =>
                         /\ runner'[t].calls = runner[t].calls + 1
                         /\ runner[t].rpc = "loop"
                         /\ runner'[t].rpc = "calling"
                  /\ runner'[t].attempt # runner[t].attempt =>
                         /\ runner[t].rpc = "raised"
                         /\ runner'[t].attempt = runner[t].attempt + 1
                  /\ runner[t].rpc \in {"returned", "completed_set", "exited"} =>
                         runner'[t].calls = runner[t].calls
                  /\ (runner[t].rpc = "raised"
                          /\ runner[t].calls < settings.TASK_MAX_RETRIES) =>
                         runner'[t].rpc \in {"raised", "loop"}]_vars

\* with N = 3: a task completed at its third call, after two that raised
C25_Witness ==
    /\ settings.TASK_MAX_RETRIES = 3
    /\ \E t \in TaskIds :
          /\ Retried(t)
          /\ Exited(t)
          /\ runner[t].calls = 3
          /\ task_dict[t].status = COMPLETED

\* the answer of a finished status request
Answered(p) == poll[p].ppc = "responded" /\ poll[p].response_data.code = 200

\* C28: a status request served while the job runs never answers with a
\* torn record: an answer "completed" carries the value the successful call
\* returned, an answer "failed" carries the stored error message.
C28_NoTornRecord ==
    \A p \in Pollers :
        Answered(p) =>
            /\ poll[p].response_data.status = COMPLETED =>
                   /\ poll[p].response_data.result.kind = "return value"
                   /\ poll[p].response_data.result = task_dict[poll[p].task_id].result
            /\ poll[p].response_data.status = FAILED =>
                   /\ poll[p].response_data.result.kind = "error"
                   /\ poll[p].response_data.result.error = "str(e)"

StatusRank(status) ==
    CASE status = "absent" -> 0
      [] status = PENDING -> 1
      [] status = PROCESSING -> 2
      [] OTHER -> 3

Finished(t) == task_dict[t].status \in {COMPLETED, FAILED}

Removed(t) == task_dict[t] # NoTask /\ t \notin task_storage

\* request handler p begins a request for task t in this step
BeginsPoll(p, t) ==
    /\ poll[p].ppc \in {"idle", "responded"}
    /\ poll'[p] # poll[p]
    /\ poll'[p].task_id = t

\* C30: a task leaves storage only when a cleanup timer fires, and a timer
\* is started only by a status request that read COMPLETED or FAILED: so a
\* PENDING or PROCESSING task is in storage and has no timer, a task without
\* a timer stays stored, a timer that fires after the removal changes
\* nothing, a removed task never returns, and every request begun after the
\* removal is answered 'not found'.
C30_CleanupOnlyAfterPoll ==
    /\ [](\A t \in TaskIds :
              task_dict[t].status \in {PENDING, PROCESSING} =>
                  t \in task_storage /\ timers[t] = 0)
    /\ [][\A t \in TaskIds :
              /\ (t \in task_storage /\ t \notin task_storage') =>
                     /\ timers'[t] = timers[t] - 1
                     /\ Finished(t)
                     /\ task_dict' = task_dict
              /\ timers'[t] > timers[t] =>
                     /\ timers'[t] = timers[t] + 1
                     /\ \E p \in Pollers :
                            /\ poll[p].task_id = t
                            /\ poll[p].status \in {COMPLETED, FAILED}
                            /\ poll[p].ppc = "have_result"
                            /\ poll'[p].ppc = "responded"
              /\ (t \in task_storage /\ timers[t] = 0) => t \in task_storage'
              /\ (timers'[t] < timers[t] /\ t \notin task_storage) =>
                     task_storage' = task_storage /\ task_dict' = task_dict
              /\ Removed(t) => Removed(t)'
              /\ \A p \in Pollers :
                     (BeginsPoll(p, t) /\ Removed(t)) =>
                         /\ poll'[p].ppc = "responded"
                         /\ poll'[p].response_data = NotFound]_vars

\* two requests had each started a timer for a finished task; the first
\* timer has removed it, the second is still pending, and a later request
\* was answered 'not found'
C30_Witness ==
    \E t \in TaskIds :
        /\ Removed(t)
        /\ timers[t] = 1
        /\ \E p \in Pollers :
              /\ poll[p].task_id = t
              /\ poll[p].ppc = "responded"
              /\ poll[p].response_data = NotFound

\* the longest run of consecutive non-ASCII characters in runs
LongestNonAsciiRun(runs) ==
    LET norm == Normalize(runs)
        lens == {norm[i].n : i \in {i \in 1..Len(norm) : IsNonAscii(norm[i].c)}}
    IN  IF lens = {} THEN 0 ELSE CHOOSE m \in lens : \A k \in lens : k <= m

\* the separators the call appended
InsertedSeparators == Cardinality({k \in 1..Len(new_parts) : new_parts[k].c = "S"})

\* where the p-th input character is in the output: six further for every
\* separator inserted before it
OutputIndex(p) ==
    p + 6 * Cardinality({q \in SeparatorPositions(new_parts) : q < p})

\* the output offsets taken by the separator inserted after input position q
SeparatorSpan(q) == {OutputIndex(q) + d : d \in 1..6}

\* runs without the characters at the offsets in gone, one run per character
RECURSIVE DeleteAt(_, _, _)
DeleteAt(runs, gone, upto) ==
    IF upto = 0 THEN <<>>
    ELSE DeleteAt(runs, gone, upto - 1)
            \o (IF upto \in gone THEN <<>> ELSE Run(ClassAt(runs, upto), 1))

\* C33: for every input string the output of _add_separators_for_non_ascii
\* has no run of more than limit (2000 by default) consecutive non-ASCII
\* characters, is as long as the input plus 6 times the number of inserted
\* separators, and is the input again once the inserted separators are
\* deleted from it.
C33_SeparatorOutputLaws ==
    sep_pc = "returned" =>
        LET n == TextLen(arg_text)
            spans == UNION {SeparatorSpan(q) : q \in SeparatorPositions(new_parts)}
        IN  /\ LongestNonAsciiRun(separated) <= arg_limit
            /\ TextLen(separated) = n + 6 * InsertedSeparators
            /\ Cardinality(spans) = 6 * InsertedSeparators
            /\ \A p \in 1..n :
                  ClassAt(separated, OutputIndex(p)) = ClassAt(arg_text, p)
            /\ n <= 2 * MaxSepChars =>
                  Normalize(DeleteAt(separated, spans, TextLen(separated)))
                      = Normalize(arg_text)

\* the call on 1999 non-ASCII characters, a space and 2001 more has
\* returned 4007 characters: one separator, after the 3999th
C33_Witness ==
    /\ sep_pc = "returned"
    /\ arg_text = Run("N", 1999) \o Run("W", 1) \o Run("N", 2001)
    /\ arg_limit = SEPARATOR_LIMIT
    /\ InsertedSeparators = 1
    /\ TextLen(separated) = 4007

\* the image is one the claim calls valid: PIL decodes it as far as the call
\* needs (it opens, and resizes when a side is longer than 1024 px) and it
\* is at least 14 px wide and 14 px high
PassesValidation(img) ==
    /\ img.opens
    /\ (img.width > 1024 \/ img.height > 1024) => img.resizes
    /\ img.width >= 14
    /\ img.height >= 14

\* the images of the batch that pass, by position, in ascending order
ValidPositions ==
    LET ok == {i \in 1..Len(image_bytes_list) : PassesValidation(image_bytes_list[i])}
    IN  [k \in 1..Cardinality(ok) |-> Kth(ok, k)]

\* the bytes the image parts of a request carry
SentData(request) ==
    LET parts == SelectSeq(request, LAMBDA part : part.type = "image_url")
    IN  [k \in 1..Len(parts) |-> parts[k].url.data]

\* C32: get_model_response sends exactly the images of the batch that pass
\* validation (decodable and at least 14 px in both dimensions), in their
\* original relative order; an invalid or too small image is dropped
\* without failing the call; and a batch whose images are all dropped still
\* gives one model call, with the prompt and no image, not a placeholder.
C32_ValidImagesSent ==
    /\ call_pc \in {"calling", "returned"} \/ api_requests # <<>> =>
          /\ api_configured
          /\ image_pos = Len(image_bytes_list)
          /\ content[1] = TextPart(arg_prompt)
          /\ SentData(content) = ValidPositions
          /\ Len(content) = 1 + Len(ValidPositions)
    /\ call_pc \in {"returned", "raised"} /\ api_configured =>
          /\ api_requests = <<content>>
          /\ call_outcome.kind = "returned" => call_outcome.about = content
    /\ call_pc = "raised" =>
          /\ api_configured => call_outcome = Raised("api error")
          /\ ~api_configured => call_outcome = Raised("not configured") /\ api_requests = <<>>
    /\ call_pc \in {"start", "encoding"} => api_requests = <<>>

\* a call whose three images were all dropped (one that cannot be opened,
\* one too small, one that cannot be resized) has made its one request,
\* with the prompt alone, and returned the model's answer
C32_Witness ==
    /\ call_pc = "returned"
    /\ Len(image_bytes_list) = 3
    /\ ~image_bytes_list[1].opens
    /\ image_bytes_list[2].opens /\ image_bytes_list[2].width < 14
    /\ image_bytes_list[3].opens /\ image_bytes_list[3].height > 1024
    /\ api_requests = <<(<<TextPart(arg_prompt)>>)>>
    /\ call_outcome.kind = "returned"

\* the report has a batch-failure, merge-failure or truncation marker
Degraded ==
    \/ report.kind = "truncated"
    \/ \E p \in 1..Len(final_content_parts) : final_content_parts[p].part = "merge_failed"
    \/ \E i \in Tasks :
          GetModelResponse(analysis_tasks[i].prompt, analysis_tasks[i].images).raised

\* every run of the pipeline on the document raises: unsupported extension,
\* or bytes the extractor cannot parse
FatalInput == FileExt(filename) \notin SupportedExts \/ ~readable

\* C31: in polling mode a run of the pipeline that returns a report, a
\* degraded one (batch-failure, merge-failure or truncation markers)
\* included, is recorded as completed and never run again, while every
\* exception is retried whatever its kind: on an unsupported format or an
\* unparseable input the download-and-pipeline wrapper is invoked
\* TASK_MAX_RETRIES times before the task is marked failed.
C31_DegradedCompletesFatalRetried ==
    \A t \in {1} :
        /\ pc = "done" =>
              /\ runner[t].rpc \in {"calling", "returned", "completed_set", "exited"}
              /\ runner[t].rpc = "calling" => wrapper_pc \in {"pipeline", "finally_return"}
              /\ task_dict[t].status \in {PROCESSING, COMPLETED}
              /\ Exited(t) =>
                    /\ task_dict[t].status = COMPLETED
                    /\ task_dict[t].result = ReturnValue(runner[t].calls - 1)
                    /\ task_dict[t].error = None
        /\ pc \in {"fatal", ExtractorRaised} =>
              /\ FatalInput
              /\ runner[t].rpc = "raised" /\ runner[t].calls < settings.TASK_MAX_RETRIES =>
                    task_dict[t].status = PROCESSING
        /\ task_dict[t].status = FAILED =>
              /\ runner[t].calls = settings.TASK_MAX_RETRIES
              /\ pc # "done"
        /\ FatalInput =>
              /\ pc # "done"
              /\ task_dict[t].status # COMPLETED
              /\ Exited(t) =>
                    /\ task_dict[t].status = FAILED
                    /\ runner[t].calls = settings.TASK_MAX_RETRIES
        /\ pipeline_calls <= runner[t].calls

\* a file of an unsupported format has been downloaded and given to the
\* pipeline three times, and the task is now failed
C31_Witness ==
    /\ Exited(1)
    /\ task_dict[1].status = FAILED
    /\ FileExt(filename) \notin SupportedExts
    /\ settings.TASK_MAX_RETRIES = 3
    /\ runner[1].calls = 3
    /\ pipeline_calls = 3

\* a degraded report came back from the second call of the wrapper, after a
\* failed download, and the task is completed
DegradedReportCompleted ==
    /\ Exited(1)
    /\ task_dict[1].status = COMPLETED
    /\ Degraded
    /\ runner[1].calls = 2
    /\ pipeline_calls = 1

\* C34: once task_wrapper_for_url has finished, by returning or by raising
\* (a download failure at any point, an unsupported format, an extraction
\* failure), no temporary file that its download created is left on disk;
\* and the file is not deleted before the pipeline has read it.
C34_NoTempFileLeft ==
    /\ wrapper_pc = "idle" => temp_dir = {}
    /\ wrapper_pc = "pipeline" =>
          /\ local_file_path \in temp_dir
          /\ content_read = local_file_path

\* the same for the calls whose download returned: the file is there while
\* it is read and while the pipeline runs, and gone when the wrapper leaves
DownloadedFileRemoved ==
    /\ wrapper_pc \in {"downloaded", "read", "pipeline", "finally_return"} =>
          local_file_path \in temp_dir
    /\ wrapper_pc \in {"read", "pipeline", "finally_return"} => content_read = local_file_path
    /\ wrapper_pc = "idle" => local_file_path \notin temp_dir

\* the response is one the claim says ends the call with an error
MustRaise(resp) ==
    \/ resp.code # 0
    \/ "build_failed" \in {resp.pptStatus, resp.aiImageStatus, resp.cardNoteStatus}
    \/ /\ {resp.pptStatus, resp.aiImageStatus, resp.cardNoteStatus} = {"done"}
       /\ resp.pptUrl = ""

\* an upper bound of the steps generate_ppt has left: every step makes it smaller
PptStepsLeft ==
    CASE ppt_pc \in {"idle", "returned", "raised"} -> 0
      [] ppt_pc = "start" -> 5 * (620 - ppt_clock) + 4
      [] ppt_pc = "head" -> 5 * (620 - ppt_clock) + 3
      [] ppt_pc = "polling" -> 5 * (620 - ppt_clock) + 2
      [] OTHER -> 5 * (620 - ppt_clock) + 1

\* C35: generate_ppt returns a PPT URL only after a progress response whose
\* pptStatus, aiImageStatus and cardNoteStatus are all 'done' and that has a
\* pptUrl; a network error during a poll is tolerated and polling goes on;
\* a non-zero response code, a 'build_failed' status or 'done' without URL
\* raises AipptProcessingError at once; and if none of these happens within
\* the window of 10 minutes the call ends with the timeout
\* AipptProcessingError: it never polls forever.
C35_PollUntilDoneOrTimeout ==
    /\ [](/\ ppt_outcome.kind = "returned" =>
                /\ ppt_pc = "returned"
                /\ progress_resp.code = 0
                /\ progress_resp.pptStatus = "done"
                /\ progress_resp.aiImageStatus = "done"
                /\ progress_resp.cardNoteStatus = "done"
                /\ progress_resp.pptUrl # ""
                /\ ppt_outcome.value = progress_resp.pptUrl
          /\ ppt_pc = "polling" => ppt_clock < 600
          /\ ppt_pc = "head" => 5 * ppt_polls <= ppt_clock
          /\ ppt_polls <= 120
          /\ ppt_outcome = AipptProcessingError("timeout") => ppt_clock >= 600
          /\ ppt_pc = "raised" => ppt_outcome.kind = "AipptProcessingError"
          /\ PptStepsLeft >= 0)
    /\ [][/\ PptStepsLeft' < PptStepsLeft
          /\ ppt_pc = "polling" /\ ppt_pc' = "head" =>
                /\ ppt_outcome' = NoPptOutcome
                /\ ppt_clock' >= ppt_clock + 5
          /\ ppt_pc = "responded" /\ MustRaise(progress_resp) =>
                /\ ppt_pc' = "raised"
                /\ ppt_outcome'.kind = "AipptProcessingError"
                /\ ppt_outcome' # AipptProcessingError("timeout")
          /\ ppt_pc = "responded" /\ ppt_pc' = "head" =>
                /\ ~MustRaise(progress_resp)
                /\ ppt_clock' = ppt_clock + 5
          /\ ppt_pc = "head" /\ ppt_clock >= 600 =>
                /\ ppt_pc' = "raised"
                /\ ppt_outcome' = AipptProcessingError("timeout")
          /\ ppt_pc = "head" /\ ppt_clock < 600 => ppt_pc' = "polling"]_vars

\* 120 polls, each answered at once with a network error or with statuses
\* still building, have used the window up, and the call has ended with the
\* timeout error
C35_Witness ==
    /\ ppt_pc = "raised"
    /\ ppt_outcome = AipptProcessingError("timeout")
    /\ ppt_polls = 120
    /\ ppt_clock = 600

\* the URL was returned by the third poll, after a network error
UrlAfterNetworkError ==
    /\ ppt_pc = "returned"
    /\ ppt_outcome = PptReturned("https://ppt")
    /\ ppt_polls = 3
    /\ ppt_clock = 10

\* C36: _poll_for_result returns the result only on status code 20000000;
\* it keeps polling while the code is 20000001 or 20000002, however many
\* polls that takes; it raises TranscriptionError on the first network
\* error and on any other status code, without retrying inside the loop;
\* and a submit that does not return code 20000000 raises before any poll
\* is made.
C36_PollForResult ==
    /\ [](/\ volc_outcome.kind = "returned" =>
                /\ volc_pc = "returned"
                /\ query_code = "20000000"
                /\ volc_outcome.poll = volc_polls
          /\ volc_polls > 0 => submit_code = "20000000"
          /\ submit_code \notin {"-", "20000000"} =>
                /\ volc_pc = "raised"
                /\ volc_outcome = TranscriptionError("submit failed", 0)
                /\ volc_polls = 0
          /\ volc_pc = "loop" =>
                /\ volc_outcome = NoVolcOutcome
                /\ volc_polls > 0 => query_code \in {"20000001", "20000002"}
          /\ volc_pc = "raised" =>
                /\ volc_outcome.kind = "TranscriptionError" \/ query_code = "20000000"
                /\ volc_outcome.poll = volc_polls
          /\ volc_outcome.value = "task failed" =>
                query_code \notin {"20000000", "20000001", "20000002"})
    /\ [][/\ volc_pc = "loop" => volc_pc' = "querying" /\ volc_polls' = volc_polls + 1
          /\ volc_pc = "querying" =>
                /\ volc_polls' = volc_polls
                /\ volc_pc' = "loop" => query_code' \in {"20000001", "20000002"}
                /\ volc_pc' = "returned" => query_code' = "20000000"
                /\ volc_pc' = "raised" =>
                      \/ /\ volc_outcome' = TranscriptionError("network error on query", volc_polls)
                         /\ query_code' = query_code
                      \/ /\ volc_outcome' = TranscriptionError("task failed", volc_polls)
                         /\ query_code' \notin {"20000000", "20000001", "20000002"}
                      \/ /\ volc_outcome'.kind = "JSONDecodeError"
                         /\ query_code' = "20000000"
          /\ volc_pc \in {"returned", "raised"} => volc_pc' = volc_pc]_vars

\* the result came with the last poll the model allows, every poll before
\* it having been answered with a code of progress, the sleep time grown
\* from 3 seconds to its maximum of 30
C36_Witness ==
    /\ volc_pc = "returned"
    /\ volc_polls = MaxVolcPolls
    /\ query_code = "20000000"
    /\ current_sleep_time = 64 * 30

====
